---- MODULE Spec2Model ----
(***************************************************************************)
(* A model of the film-database repository: the bulk loader               *)
(* (insert_db.py), the query layer (backend/db.py, backend/queries.py)    *)
(* and the review form of the GUI (frontend/gui.py).                      *)
(*                                                                         *)
(* The database is a record of tables, each a set of rows.  db holds the  *)
(* committed rows; tx is the log of the statements insert_roles executes  *)
(* on its cursor, which take effect in db when the stage commits.         *)
(***************************************************************************)
EXTENDS Integers, Sequences, FiniteSets, TLC

(***************************************************************************)
(* Bounds of the model                                                     *)
(***************************************************************************)
\* principals.tsv holds at most this many rows
MaxPrincipals == 2
\* at most this many reviews are written through the query layer
MaxWrites == 1
\* insert_reviews inserts this many sampled reviews (the code samples 5000)
SampleSize == 1
\* the random stream of a run repeats a pattern of this many outcomes
SeedLen == 2

(***************************************************************************)
(* Program constants                                                       *)
(***************************************************************************)
DefaultRuntime == 120
MaxStudioId == 10
MaxFans == 3000
AwardCutoffYear == 2025
MinFavorites == 5
MaxFavorites == 30
MinRating == 1
MaxRating == 10
\* (datetime(2024, 12, 31) - datetime(2019, 1, 1)).days
WindowDays == 2191

AWARD_LIST ==
  << "Academy Award Best Picture", "Academy Award Best Director",
     "Golden Globe Best Drama", "Golden Globe Best Comedy",
     "BAFTA Best Film", "Cannes Palme d'Or",
     "Berlin Golden Bear", "Venice Golden Lion" >>

DIRECTING_STYLES ==
  << "Realism", "Surrealism", "Documentary-style", "Experimental",
     "Character-driven", "Action-heavy", "Fantasy-oriented", "Minimalist" >>

WRITING_STYLES ==
  << "Dialogue-focused", "Non-linear narrative", "Character-driven writing",
     "High-concept storytelling", "Comedy writing", "Dark drama",
     "Thriller style" >>

(***************************************************************************)
(* Helpers                                                                 *)
(***************************************************************************)
NULL == "NULL"

Range(s) == { s[i] : i \in DOMAIN s }

SetMin(S) == CHOOSE x \in S : \A y \in S : x <= y
SetMax(S) == CHOOSE x \in S : \A y \in S : x >= y

\* The elements of a set as a list (the rows of a SELECT, in some order).
RECURSIVE ListOf(_)
ListOf(S) ==
  IF S = {} THEN << >>
  ELSE LET x == CHOOSE y \in S : TRUE IN << x >> \o ListOf(S \ {x})

(***************************************************************************)
(* The module random.  The generator is never seeded by the code, so a    *)
(* run draws from one arbitrary stream.  The streams explored are those   *)
(* in which every draw takes an end of its range, low or high following a *)
(* repeating pattern sd of bits; the k-th draw of a stage reads bit k.    *)
(***************************************************************************)
Seeds == [ 1..SeedLen -> {0, 1} ]
Bit(sd, k) == sd[(k % Len(sd)) + 1]

\* random.randint(lo, hi)
RandInt(sd, k, lo, hi) == IF Bit(sd, k) = 0 THEN lo ELSE hi
\* random.randrange(n)
RandRange(sd, k, n) == RandInt(sd, k, 0, n - 1)
\* random.choice(list), random.sample(list, 1)[0]
Choice(sd, k, list) == list[RandInt(sd, k, 1, Len(list))]
\* random.sample(list, n), n <= len(list): n distinct elements
Sample(sd, k, list, n) ==
  IF Bit(sd, k) = 0 THEN SubSeq(list, 1, n)
  ELSE [ i \in 1..n |-> list[Len(list) + 1 - i] ]
\* random.random() < 0.75
Below75(sd, k) == Bit(sd, k) = 0

\* The decimal literals that occur in the files; float(s) raises ValueError
\* for every other string, the empty one included.
NumLit ==
  [ s \in {"2000.0", "2015.0", "2021.0", "2030.0", "0", "90", "155", "1980"} |->
      CASE s = "2000.0" -> 2000
        [] s = "0"      -> 0
        [] s = "2015.0" -> 2015
        [] s = "2021.0" -> 2021
        [] s = "2030.0" -> 2030
        [] s = "90"     -> 90
        [] s = "155"    -> 155
        [] s = "1980"   -> 1980 ]

IsNumeric(s) == s \in DOMAIN NumLit
\* int(float(s))
IntOfFloat(s) == NumLit[s]

(***************************************************************************)
(* The schema (schema.sql): keys and references of the tables.            *)
(***************************************************************************)
EmptyDb ==
  [ Movies |-> {}, Studio |-> {}, Produced_By |-> {}, People |-> {},
    Actor |-> {}, Director |-> {}, Writer |-> {},
    Acts_In |-> {}, Directs |-> {}, Writes_Script_For |-> {},
    Genre |-> {}, Has_Genre |-> {}, Award |-> {}, Wins_Award |-> {},
    User |-> {}, Review |-> {}, Favorites |-> {} ]

\* The primary key of a row of each table that has one the loader can hit.
KeyOf(tbl, row) ==
  CASE tbl = "Movies"   -> << row.movieId >>
    [] tbl = "People"   -> << row.pId >>
    [] tbl = "Actor"    -> << row.actorId >>
    [] tbl = "Director" -> << row.directorId >>
    [] tbl = "Writer"   -> << row.writerId >>
    [] tbl = "Acts_In"  -> << row.movieId, row.actorId >>
    [] tbl = "Directs"  -> << row.movieId, row.directorId >>
    [] tbl = "Writes_Script_For" -> << row.movieId, row.writerId >>
    [] tbl = "Produced_By" -> << row.movieId, row.studioId >>
    [] OTHER -> << row >>

Keys(tbl, rows) == { KeyOf(tbl, r) : r \in rows }

\* A sequence of rows can be inserted into a table holding `have` when no
\* two of them share a key, with each other or with a row of the table.
NoDuplicateKey(tbl, seq, have) ==
  /\ \A i, j \in DOMAIN seq : i # j => KeyOf(tbl, seq[i]) # KeyOf(tbl, seq[j])
  /\ \A i \in DOMAIN seq : KeyOf(tbl, seq[i]) \notin Keys(tbl, have)

MovieIdsOf(d) == { m.movieId : m \in d.Movies }
StudioIdsOf(d) == { s.studioId : s \in d.Studio }
PeopleIdsOf(d) == { p.pId : p \in d.People }
UserIdsOf(d) == { u.userId : u \in d.User }
AwardIdsOf(d) == { a.awardId : a \in d.Award }

\* AUTO_INCREMENT: the ids given to n rows inserted after `have` ids.
NextId(ids, k) == (IF ids = {} THEN 0 ELSE SetMax(ids)) + k

(***************************************************************************)
(* The files of filtered_data/ the loader reads                           *)
(***************************************************************************)
MovieRowA ==
  [ tconst |-> "tt1", primaryTitle |-> "Dune", originalTitle |-> "",
    titleType |-> "movie", startYear |-> "2015.0", runtimeMinutes |-> "",
    genres |-> << "Drama" >> ]
MovieRowB ==
  [ tconst |-> "tt2", primaryTitle |-> "Dune", originalTitle |-> "Dune: Part One",
    titleType |-> "movie", startYear |-> "2021.0", runtimeMinutes |-> "155",
    genres |-> << "Sci-Fi", "Adventure" >> ]

MovieRowC ==
  [ tconst |-> "tt3", primaryTitle |-> "Heat", originalTitle |-> "",
    titleType |-> "movie", startYear |-> "2000.0", runtimeMinutes |-> "90",
    genres |-> << "Drama " >> ]
MovieRowD ==
  [ tconst |-> "tt4", primaryTitle |-> "Solaris", originalTitle |-> "",
    titleType |-> "movie", startYear |-> "2030.0", runtimeMinutes |-> "90",
    genres |-> << >> ]
MovieRowE ==
  [ tconst |-> "tt5", primaryTitle |-> "Alien", originalTitle |-> "",
    titleType |-> "movie", startYear |-> "2000.0", runtimeMinutes |-> "",
    genres |-> << "Sci-Fi" >> ]

\* movies.tsv as filter_movies writes it: startYear is a float literal, a
\* missing value is the empty string, genres is a comma-separated list.
MovieFiles ==
  { << >>, << MovieRowA >>, << MovieRowA, MovieRowB >>,
    << MovieRowA, MovieRowA >>,
    << MovieRowA, MovieRowB, MovieRowC, MovieRowD, MovieRowE >> }

\* movie_ids.txt: filter_movies writes the tconst of each row of movies.tsv.
MovieIdsFile(mv) == [ i \in DOMAIN mv |-> mv[i].tconst ]

StudioNames ==
  << "A24", "Warner Bros", "Universal", "Paramount", "Columbia",
     "Disney", "Lionsgate", "MGM", "Fox", "Sony" >>
StudioFiles == { SubSeq(StudioNames, 1, n) : n \in {0, 1, Len(StudioNames)} }

PersonIds == { "nm1", "nm2" }
PersonRow(p) ==
  [ nconst |-> p, primaryName |-> p, birthYear |-> IF p = "nm1" THEN "1980" ELSE "",
    deathYear |-> "", primaryProfession |-> "actor,director" ]
PeopleFiles ==
  { << PersonRow("nm1") >>, << PersonRow("nm1"), PersonRow("nm2") >>,
    << PersonRow("nm1"), PersonRow("nm1") >> }

Categories == { "actor", "actress", "director", "writer", "producer" }
\* every row principals.tsv can hold
PrincipalRows ==
  [ tconst : {"tt1", "tt2"}, nconst : PersonIds, category : Categories ]
\* the rows of the principals.tsv of a whole pipeline run
PipelinePrincipalRows ==
  { r \in PrincipalRows :
      /\ r.nconst = "nm1"
      /\ r.category \in {"actor", "director", "producer"}
      /\ r.tconst = "tt2" => r.category = "director" }

\* users.csv: one row per line, the user name in the first column
UserFiles == { << >>, << << "smomery0" >> >>, << << >>, << "smomery0" >> >> }

(***************************************************************************)
(* State                                                                   *)
(***************************************************************************)
VARIABLES
  basics,      \* ~/Downloads/title.basics.tsv, << >> where only filtered_data is
  movies,      \* filtered_data/movies.tsv
  seed,        \* the stream of the module random in this run
  db,          \* the committed rows of every table
  tx,          \* insert_roles: the statements executed on its cursor, in order
  pc,          \* the stage __main__ is in
  started,     \* the "Inserting ..." lines __main__ has printed
  commits,     \* the tables committed so far, in commit order
  error,       \* the exception that ended the loader, "" while it runs
  failedAt,    \* the value of pc when the loader ended with an exception
  principals,  \* insert_roles: the rows read from principals.tsv so far
  seen,        \* insert_roles: the sets actors, directors, writers
  written,     \* the number of reviews written through the query layer
  ret,         \* the outcome of the last query-layer or GUI call
  conns,       \* the connections the process opened and has not closed
  fs           \* filter_data.py: the raw files, filtered_data/ and main's locals

vars == << basics, movies, seed, db, tx, pc, started, commits, error, failedAt,
           principals, seen, written, ret, conns, fs >>

NoSeen == [ actors |-> {}, directors |-> {}, writers |-> {} ]
NoCall == [ op |-> "none" ]

\* a file that does not exist
Absent == [ exists |-> FALSE, lines |-> << >> ]
\* the extractor has not been run: no file of it is looked at
NoFiles ==
  [ present |-> {}, principals_raw |-> << >>, crew_raw |-> << >>,
    names_raw |-> << >>, movies_tsv |-> Absent, movie_ids_txt |-> Absent,
    principals_tsv |-> Absent, crew_tsv |-> Absent, people_ids_txt |-> Absent,
    people_tsv |-> Absent, wrote |-> {}, movie_ids |-> {} ]

\* __main__: the order of the stages
MainOrder ==
  << "movies", "studios", "people", "roles", "genres", "awards", "users",
     "reviews", "favorites" >>

IndexOf(seq, x) == CHOOSE i \in DOMAIN seq : seq[i] = x

\* a main sequence that calls insert_people before insert_studios
NextStagePeopleFirst(s) ==
  LET order == << "movies", "people", "studios", "roles", "genres", "awards",
                  "users", "reviews", "favorites" >> IN
  IF IndexOf(order, s) = Len(order) THEN "done"
  ELSE order[IndexOf(order, s) + 1]

\* the stage __main__ calls after stage s
NextStage(s) ==
  IF IndexOf(MainOrder, s) = Len(MainOrder) THEN "done"
  ELSE MainOrder[IndexOf(MainOrder, s) + 1]

Init ==
  /\ basics = << >>
  /\ movies \in MovieFiles
  /\ seed \in Seeds
  /\ db = EmptyDb
  /\ tx = << >>
  /\ pc = "movies"
  /\ started = << "movies" >>
  /\ commits = << >>
  /\ error = ""
  /\ failedAt = ""
  /\ principals = << >>
  /\ seen = NoSeen
  /\ written = 0
  /\ ret = NoCall
  /\ conns = 0
  /\ fs = NoFiles

(***************************************************************************)
(* Transactions                                                            *)
(***************************************************************************)
\* the rows the statements of t add to table tbl
TxRows(t, tbl) ==
  { t[i].row : i \in { j \in DOMAIN t : t[j].tbl = tbl /\ t[j].outcome = "ok" } }

\* what the connection that executed t reads (and what its commit makes
\* durable): the committed rows and its own
Apply(d, t) == [ tbl \in DOMAIN d |-> d[tbl] \cup TxRows(t, tbl) ]

\* a loader that would keep the rows of the batch it was in when it ended
AbortKeeping(view, err) ==
  /\ pc' = "crashed"
  /\ error' = err
  /\ failedAt' = pc
  /\ db' = view
  /\ UNCHANGED << fs, basics, movies, seed, started, commits, written, ret >>

\* An uncaught exception ends the interpreter: no later stage runs, and the
\* server rolls back what the dropped connection had not committed (view is
\* what that connection read when the exception was raised).
Abort(view, err) ==
  /\ pc' = "crashed"
  /\ error' = err
  /\ failedAt' = pc
  /\ db' = db
  /\ UNCHANGED << fs, basics, movies, seed, started, commits, written, ret >>

\* The control returns to __main__, which prints the next "Inserting ..."
\* line and calls the next stage; `to` inside a stage is its second half.
Advance(to) ==
  /\ pc' = to
  /\ started' = IF to \in Range(MainOrder) THEN Append(started, to) ELSE started

\* the stage returns to __main__ with what it committed
Returned(res, tables, to) ==
  /\ db' = res.d
  /\ commits' = commits \o tables
  /\ Advance(to)
  /\ UNCHANGED << fs, basics, movies, seed, tx, error, failedAt, principals, seen,
                  written, ret >>

\* A batch ends: an exception ends the loader, else conn.commit() makes
\* res.d durable and the run goes on at `to`. Either way the connections
\* the stage opened and did not close stay behind.
Finish(res, tables, to) ==
  /\ conns' = conns + res.open
  /\ IF res.err # ""
     THEN Abort(res.d, res.err) /\ UNCHANGED << tx, principals, seen >>
     ELSE Returned(res, tables, to)

\* The outcome of a batch: the rows its connection reads at the end, the
\* exception raised, "" when there is none, and the number of connections it
\* opened and did not close. A stage that reaches its end has called
\* conn.close(); an exception leaves the stage between open_cursor() and
\* conn.close(), which no finally clause makes up for.
Ok(d) == [ d |-> d, err |-> "", open |-> 0 ]
Raise(d, err) == [ d |-> d, err |-> err, open |-> 1 ]

\* get_conn(): mysql.connector.connect raises when the server is unreachable
ConnectFail ==
  /\ pc \in Range(MainOrder) \cup {"produced_by"}
  /\ pc = "roles" => principals = << >>
  /\ Abort(db, "DatabaseError")
  /\ UNCHANGED << tx, principals, seen, conns >>

(***************************************************************************)
(* insert_movies                                                           *)
(***************************************************************************)
\* a loader that would store a missing runtime as 0
MovieTupleNoDefault(row) ==
  [ movieId |-> row.tconst,
    primaryTitle |-> row.primaryTitle,
    originalTitle |-> IF row.originalTitle = "" THEN row.primaryTitle
                      ELSE row.originalTitle,
    titleType |-> row.titleType,
    startYear |-> IntOfFloat(row.startYear),
    runtimeMinutes |-> IF row.runtimeMinutes = "" THEN 0
                       ELSE IntOfFloat(row.runtimeMinutes),
    releaseYear |-> IntOfFloat(row.startYear) ]

\* the tuple insert_movies builds from one row of movies.tsv
MovieTuple(row) ==
  [ movieId |-> row.tconst,
    primaryTitle |-> row.primaryTitle,
    originalTitle |-> IF row.originalTitle = "" THEN row.primaryTitle
                      ELSE row.originalTitle,
    titleType |-> row.titleType,
    startYear |-> IntOfFloat(row.startYear),
    runtimeMinutes |-> IF row.runtimeMinutes = "" THEN DefaultRuntime
                       ELSE IntOfFloat(row.runtimeMinutes),
    releaseYear |-> IntOfFloat(row.startYear) ]

\* int(float(...)) raises ValueError on a row
MovieRowParses(row) ==
  /\ IsNumeric(row.startYear)
  /\ row.runtimeMinutes = "" \/ IsNumeric(row.runtimeMinutes)

\* a loader whose INSERT INTO Movies would skip the rows that exist
MoviesStageIgnoring(d, mv) ==
  IF \E i \in DOMAIN mv : ~MovieRowParses(mv[i]) THEN Raise(d, "ValueError")
  ELSE Ok([d EXCEPT !.Movies =
             @ \cup { MovieTuple(mv[i]) :
                        i \in { j \in DOMAIN mv : mv[j].tconst \notin MovieIdsOf(d) } }])

MoviesStage(d, mv) ==
  IF \E i \in DOMAIN mv : ~MovieRowParses(mv[i]) THEN Raise(d, "ValueError")
  ELSE LET rows == [ i \in DOMAIN mv |-> MovieTuple(mv[i]) ] IN
       IF ~NoDuplicateKey("Movies", rows, d.Movies) THEN Raise(d, "IntegrityError")
       ELSE Ok([d EXCEPT !.Movies = @ \cup Range(rows)])

InsertMovies ==
  /\ pc = "movies"
  /\ Finish(MoviesStage(db, movies), << "Movies" >>, NextStage("movies"))

(***************************************************************************)
(* insert_studios: insert_from_tsv("Studio", ...), then Produced_By       *)
(***************************************************************************)
\* insert_from_tsv: the value \N of a column is stored as NULL
NullOf(v) == IF v = "\\N" THEN NULL ELSE v

\* insert_from_tsv("Studio", "filtered_data/studios.tsv")
StudioCatalogStage(d, f) ==
  Ok([d EXCEPT !.Studio = @ \cup
        { [ studioId |-> NextId(StudioIdsOf(d), i), studioName |-> NullOf(f[i]) ]
            : i \in DOMAIN f }])

\* the first half of insert_studios: the catalog, committed on its own
InsertStudioCatalog ==
  /\ pc = "studios"
  /\ \E f \in StudioFiles :
       Finish(StudioCatalogStage(db, f), << "Studio" >>, "produced_by")

\* a Produced_By row references a movie and a studio that exist
ProducedByRefs(d, row) ==
  row.movieId \in MovieIdsOf(d) /\ row.studioId \in StudioIdsOf(d)

\* one row per line of movie_ids.txt, studioId = random.randint(1, 10)
ProducedByRows(sd, ids) ==
  [ i \in DOMAIN ids |->
      [ movieId |-> ids[i], studioId |-> RandInt(sd, i, 1, MaxStudioId) ] ]

\* cursor.executemany of the rows
ProducedByStage(d, sd, ids) ==
  LET rows == ProducedByRows(sd, ids) IN
  IF \/ \E i \in DOMAIN rows : ~ProducedByRefs(d, rows[i])
     \/ ~NoDuplicateKey("Produced_By", rows, d.Produced_By)
  THEN Raise(d, "IntegrityError")
  ELSE Ok([d EXCEPT !.Produced_By = @ \cup Range(rows)])

\* the second half of insert_studios
InsertProducedBy ==
  /\ pc = "produced_by"
  /\ Finish(ProducedByStage(db, seed, MovieIdsFile(movies)), << "Produced_By" >>,
            NextStage("studios"))

(***************************************************************************)
(* insert_people                                                           *)
(***************************************************************************)
\* birthYear and deathYear are None when the column is empty (0 here)
PersonTuple(row, studio) ==
  [ pId |-> row.nconst,
    primaryName |-> row.primaryName,
    birthYear |-> IF row.birthYear = "" THEN 0 ELSE IntOfFloat(row.birthYear),
    deathYear |-> IF row.deathYear = "" THEN 0 ELSE IntOfFloat(row.deathYear),
    primaryProfession |-> row.primaryProfession,
    currentStudioId |-> studio ]

PeopleStage(d, sd, f) ==
  LET studio_ids == ListOf(StudioIdsOf(d)) IN
  IF f # << >> /\ studio_ids = << >>
  THEN Raise(d, "ValueError")     \* random.sample of an empty list
  ELSE LET rows == [ i \in DOMAIN f |->
                       PersonTuple(f[i], Choice(sd, i, studio_ids)) ] IN
       IF ~NoDuplicateKey("People", rows, d.People) THEN Raise(d, "IntegrityError")
       ELSE Ok([d EXCEPT !.People = @ \cup Range(rows)])

InsertPeople ==
  /\ pc = "people"
  /\ \E f \in PeopleFiles :
       Finish(PeopleStage(db, seed, f), << "People" >>, NextStage("people"))

(***************************************************************************)
(* insert_roles: one pass over principals.tsv                             *)
(***************************************************************************)
\* the branch of the scan a category takes
RoleOf(category) ==
  CASE category \in {"actor", "actress"} -> "Actor"
    [] category = "director" -> "Director"
    [] category = "writer" -> "Writer"
    [] OTHER -> "none"

MemberTable(role) ==
  CASE role = "Actor" -> "Acts_In"
    [] role = "Director" -> "Directs"
    [] role = "Writer" -> "Writes_Script_For"

RoleTables == { "Actor", "Director", "Writer" }
MemberTables == { "Acts_In", "Directs", "Writes_Script_For" }

SeenOf(sn, role) ==
  CASE role = "Actor" -> sn.actors
    [] role = "Director" -> sn.directors
    [] role = "Writer" -> sn.writers

AddSeen(sn, role, p) ==
  CASE role = "Actor" -> [sn EXCEPT !.actors = @ \cup {p}]
    [] role = "Director" -> [sn EXCEPT !.directors = @ \cup {p}]
    [] role = "Writer" -> [sn EXCEPT !.writers = @ \cup {p}]

\* a scan that looks every person up in the set actors, whatever the role
NeedsRoleRowActorsOnly(sn, role, p) == p \notin sn.actors

\* a scan that does not look the person up at all
NeedsRoleRowAlways(sn, role, p) == TRUE

\* `if person_id not in actors` (directors, writers)
NeedsRoleRow(sn, role, p) == p \notin SeenOf(sn, role)

\* the row the scan inserts for a first sighting, at the k-th row of the file
RoleRow(sd, k, role, row) ==
  CASE role = "Actor" ->
         [ actorId |-> row.nconst, number_of_fans |-> RandInt(sd, k, 0, MaxFans) ]
    [] role = "Director" ->
         [ directorId |-> row.nconst,
           directing_style |-> Choice(sd, k, DIRECTING_STYLES),
           best_known_movieId |-> row.tconst ]
    [] role = "Writer" ->
         [ writerId |-> row.nconst,
           writing_style |-> Choice(sd, k, WRITING_STYLES),
           best_known_movieId |-> row.tconst ]

MemberRow(role, row) ==
  CASE role = "Actor" -> [ movieId |-> row.tconst, actorId |-> row.nconst ]
    [] role = "Director" -> [ movieId |-> row.tconst, directorId |-> row.nconst ]
    [] role = "Writer" -> [ movieId |-> row.tconst, writerId |-> row.nconst ]

\* the person of a row of a role table or of a membership table
PersonOf(tbl, r) ==
  CASE tbl \in {"Actor", "Acts_In"} -> r.actorId
    [] tbl \in {"Director", "Directs"} -> r.directorId
    [] tbl \in {"Writer", "Writes_Script_For"} -> r.writerId

\* a role row references a person, and its best-known movie, that exist
RoleRefs(d, role, r) ==
  /\ PersonOf(role, r) \in PeopleIdsOf(d)
  /\ role # "Actor" => r.best_known_movieId \in MovieIdsOf(d)

\* a membership row references a movie and a role row that exist
MemberRefs(d, role, r) ==
  /\ r.movieId \in MovieIdsOf(d)
  /\ PersonOf(role, r) \in { PersonOf(role, x) : x \in d[role] }

\* the membership statement of a role is an INSERT IGNORE
InsertIgnore(role) == role = "Actor"

\* the outcome of executing INSERT [IGNORE] of row r into tbl
Execute(d, tbl, r, refsOk, ignore) ==
  IF refsOk /\ KeyOf(tbl, r) \notin Keys(tbl, d[tbl]) THEN "ok"
  ELSE IF ignore THEN "ignored" ELSE "error"

\* reads the next row and, on a first sighting, inserts the role row
RolesRow(pool) ==
  /\ pc = "roles"
  /\ Len(principals) < MaxPrincipals
  /\ \E row \in pool :
       LET role == RoleOf(row.category)
           view == Apply(db, tx) IN
       /\ principals' = Append(principals, row)
       /\ conns' = IF principals = << >> THEN conns + 1 ELSE conns  \* open_cursor()
       /\ IF role = "none"
          THEN UNCHANGED << fs, basics, movies, seed, db, tx, pc, started, commits, error,
                            failedAt, seen, written, ret >>
          ELSE IF ~NeedsRoleRow(seen, role, row.nconst)
          THEN /\ pc' = "roles_member"
               /\ UNCHANGED << fs, basics, movies, seed, db, tx, started, commits, error,
                               failedAt, seen, written, ret >>
          ELSE LET r == RoleRow(seed, Len(principals) + 1, role, row)
                   out == Execute(view, role, r, RoleRefs(view, role, r), FALSE) IN
               /\ tx' = Append(tx, [ tbl |-> role, row |-> r, outcome |-> out ])
               /\ IF out = "error"
                  THEN Abort(view, "IntegrityError") /\ seen' = seen
                  ELSE /\ seen' = AddSeen(seen, role, row.nconst)
                       /\ pc' = "roles_member"
                       /\ UNCHANGED << fs, basics, movies, seed, db, started, commits, error,
                                       failedAt, written, ret >>

\* inserts the membership row of the row just read
RolesMember ==
  /\ pc = "roles_member"
  /\ LET row == principals[Len(principals)]
         role == RoleOf(row.category)
         view == Apply(db, tx)
         r == MemberRow(role, row)
         out == Execute(view, MemberTable(role), r, MemberRefs(view, role, r),
                        InsertIgnore(role)) IN
     /\ tx' = Append(tx, [ tbl |-> MemberTable(role), row |-> r, outcome |-> out ])
     /\ IF out = "error"
        THEN Abort(view, "IntegrityError") /\ UNCHANGED << principals, seen, conns >>
        ELSE /\ pc' = "roles"
             /\ UNCHANGED << fs, basics, movies, seed, db, started, commits, error, failedAt,
                             principals, seen, written, ret, conns >>

\* the end of the file: close_cursor commits and closes the connection that
\* open_cursor opened (with the first row, or here when the file is empty)
RolesCommit ==
  /\ pc = "roles"
  /\ Finish([ Ok(Apply(db, tx)) EXCEPT !.open = IF principals = << >> THEN 0 ELSE -1 ],
            << "Roles" >>, NextStage("roles"))

(***************************************************************************)
(* insert_genres: a second pass over movies.tsv                           *)
(***************************************************************************)
\* str.strip() of the strings that occur
Strip(str) ==
  CASE str = " Heat " -> "Heat"
    [] str = "Drama " -> "Drama"
    [] str = "  " -> ""
    [] OTHER -> str

\* a scan that would take the last entry of the list
LastGenre(row) ==
  IF row.genres = << >> THEN NULL ELSE Strip(row.genres[Len(row.genres)])

\* None when the field is empty, else genres.split(",")[0].strip()
FirstGenre(row) == IF row.genres = << >> THEN NULL ELSE Strip(Head(row.genres))

\* Genre.name is unique: a second row of the same name is refused
GenreNameTaken(d, name) == \E g \in d.Genre : g.name = name

\* a SELECT that would answer with an id one above the genre's
GenreIdAbove(d, name) == (CHOOSE g \in d.Genre : g.name = name).genreId + 1

\* `SELECT genreId FROM Genre WHERE name = %s`, fetchone()[0]
GenreIdOf(d, name) == (CHOOSE g \in d.Genre : g.name = name).genreId

\* The scan from row i on; names is the local set `genres`, which is empty at
\* the start of every run: a name that Genre holds already is inserted
\* again, and refused.
RECURSIVE GenreScan(_, _, _, _)
GenreScan(mv, i, d, names) ==
  IF i > Len(mv) THEN Ok(d)
  ELSE LET genre == FirstGenre(mv[i]) IN
       IF genre = NULL THEN GenreScan(mv, i + 1, d, names)
       ELSE IF genre \notin names /\ GenreNameTaken(d, genre)
       THEN Raise(d, "IntegrityError")
       ELSE LET d1 == IF genre \in names THEN d
                      ELSE [d EXCEPT !.Genre = @ \cup
                              { [ genreId |-> NextId({ g.genreId : g \in d.Genre }, 1),
                                  name |-> genre ] }]
                link == [ movieId |-> mv[i].tconst, genreId |-> GenreIdOf(d1, genre) ] IN
            IF link \in d1.Has_Genre \/ link.movieId \notin MovieIdsOf(d1)
            THEN Raise(d1, "IntegrityError")
            ELSE GenreScan(mv, i + 1, [d1 EXCEPT !.Has_Genre = @ \cup {link}],
                           names \cup {genre})

GenresStage(d, mv) == GenreScan(mv, 1, d, {})

InsertGenres ==
  /\ pc = "genres"
  /\ Finish(GenresStage(db, movies), << "Genre" >>, NextStage("genres"))

(***************************************************************************)
(* insert_awards: the catalog, committed, then Wins_Award                 *)
(***************************************************************************)
AwardCatalogStage(d) ==
  Ok([d EXCEPT !.Award = @ \cup
        { [ awardId |-> NextId(AwardIdsOf(d), i), awardName |-> AWARD_LIST[i] ]
            : i \in DOMAIN AWARD_LIST }])

InsertAwardCatalog ==
  /\ pc = "awards"
  /\ Finish(AwardCatalogStage(db), << "Award" >>, "wins_award")

\* the year of a row of movies.tsv, 0 standing for None
AwardYear(row) == IF row.startYear = "" THEN 0 ELSE IntOfFloat(row.startYear)

\* a draw that would not look at the cutoff year
NoAwardAnyYear(sd, i, row) == row.startYear = "" \/ Below75(sd, i)

\* `year is None or year > 2025 or random.random() < 0.75`: the row is skipped
NoAward(sd, i, row) ==
  row.startYear = "" \/ AwardYear(row) > AwardCutoffYear \/ Below75(sd, i)

WinsAwardRefs(d, r) == r.movieId \in MovieIdsOf(d) /\ r.awardId \in AwardIdsOf(d)

WinsAwardStage(d, sd, mv) ==
  LET win_awards ==
        { [ movieId |-> mv[i].tconst,
            awardId |-> RandInt(sd, i + 1, 1, Len(AWARD_LIST)),
            year |-> RandInt(sd, i + 3, AwardYear(mv[i]), AwardCutoffYear) ] :
            i \in { j \in DOMAIN mv : ~NoAward(sd, j, mv[j]) } } IN
  IF \E r \in win_awards : ~WinsAwardRefs(d, r) THEN Raise(d, "IntegrityError")
  ELSE Ok([d EXCEPT !.Wins_Award = @ \cup win_awards])

InsertWinsAward ==
  /\ pc = "wins_award"
  /\ Finish(WinsAwardStage(db, seed, movies), << "Wins_Award" >>, NextStage("awards"))

(***************************************************************************)
(* insert_users                                                            *)
(***************************************************************************)
\* `for row in reader if row`: the empty lines are skipped
RECURSIVE NonEmptyRows(_)
NonEmptyRows(f) ==
  IF f = << >> THEN << >>
  ELSE IF Head(f) = << >> THEN NonEmptyRows(Tail(f))
  ELSE << Head(f) >> \o NonEmptyRows(Tail(f))

UsersStage(d, f) ==
  LET rows == NonEmptyRows(f) IN
  Ok([d EXCEPT !.User = @ \cup
        { [ userId |-> NextId(UserIdsOf(d), i), userName |-> rows[i][1] ]
            : i \in DOMAIN rows }])

InsertUsers ==
  /\ pc = "users"
  /\ \E f \in UserFiles :
       Finish(UsersStage(db, f), << "User" >>, NextStage("users"))

(***************************************************************************)
(* insert_reviews                                                          *)
(***************************************************************************)
\* the review column of imdb_reviews.csv
ReviewCorpus == << "Great.<br />Loved it.", "Dull." >>

\* a column left as it was read
ReplaceBrKeeping(str) == str

\* str.replace("<br />", " ")
ReplaceBr(str) == IF str = "Great.<br />Loved it." THEN "Great. Loved it." ELSE str

\* random_datetime(): 2019-01-01 plus randrange(WindowDays) days, as the
\* number of days after 2019-01-01
RandomDatetime(sd, k) == RandRange(sd, k, WindowDays)

\* `if not user_ids or not movie_ids: return`
ReviewsReturnEarly(d) == UserIdsOf(d) = {} \/ MovieIdsOf(d) = {}

ReviewsStage(d, sd) ==
  LET user_ids == ListOf(UserIdsOf(d))
      movie_ids == ListOf(MovieIdsOf(d)) IN
  IF SampleSize > Len(ReviewCorpus)
  THEN \* df.sample: larger sample than population, before get_conn()
       [ Raise(d, "ValueError") EXCEPT !.open = 0 ]
  ELSE IF ReviewsReturnEarly(d)
  THEN \* `return` with neither commit nor cursor.close() nor conn.close()
       [ Ok(d) EXCEPT !.open = 1 ]
  ELSE LET df == Sample(sd, 0, ReviewCorpus, SampleSize) IN
       Ok([d EXCEPT !.Review = @ \cup
             { [ reviewId |-> NextId({ r.reviewId : r \in d.Review }, i),
                 userId |-> Choice(sd, i, user_ids),
                 movieId |-> Choice(sd, i + 1, movie_ids),
                 post_time |-> RandomDatetime(sd, i + 2),
                 content |-> ReplaceBr(df[i]),
                 rating |-> RandInt(sd, i + 3, MinRating, MaxRating) ] :
                 i \in 1..SampleSize }])

\* the early return commits nothing
InsertReviews ==
  /\ pc = "reviews"
  /\ Finish(ReviewsStage(db, seed),
            IF ReviewsReturnEarly(db) THEN << >> ELSE << "Review" >>,
            NextStage("reviews"))

(***************************************************************************)
(* insert_favorites                                                        *)
(***************************************************************************)
FavoritesStage(d, sd) ==
  LET user_ids == ListOf(UserIdsOf(d))
      movie_ids == ListOf(MovieIdsOf(d))
      fav_count == [ i \in DOMAIN user_ids |->
                       RandInt(sd, i, MinFavorites, MaxFavorites) ] IN
  IF \E i \in DOMAIN user_ids : fav_count[i] > Len(movie_ids)
  THEN Raise(d, "ValueError")   \* random.sample: sample larger than population
  ELSE LET rows == { [ userId |-> user_ids[i], movieId |-> m ] :
                       i \in DOMAIN user_ids, m \in Range(movie_ids) }
           favs == { r \in rows :
                       \E i \in DOMAIN user_ids :
                         /\ user_ids[i] = r.userId
                         /\ r.movieId \in
                              Range(Sample(sd, i + 1, movie_ids, fav_count[i])) } IN
       Ok([d EXCEPT !.Favorites = @ \cup favs])

InsertFavorites ==
  /\ pc = "favorites"
  /\ Finish(FavoritesStage(db, seed), << "Favorites" >>, NextStage("favorites"))

(***************************************************************************)
(* The loader                                                              *)
(***************************************************************************)
Next ==
  \/ InsertMovies
  \/ InsertStudioCatalog
  \/ InsertProducedBy
  \/ InsertPeople
  \/ RolesRow(PipelinePrincipalRows)
  \/ RolesMember
  \/ RolesCommit
  \/ InsertGenres
  \/ InsertAwardCatalog
  \/ InsertWinsAward
  \/ InsertUsers
  \/ InsertReviews
  \/ InsertFavorites
  \/ ConnectFail

Spec == Init /\ [][Next]_vars

(***************************************************************************)
(* A stage function called a second time, after the loader has finished    *)
(***************************************************************************)
\* The second call of a stage: an exception ends it with nothing committed,
\* else its commit makes res.d durable.
Rerun(stage, res, tables) ==
  /\ pc = "done"
  /\ started' = Append(started, stage)
  /\ conns' = conns + res.open
  /\ IF res.err # ""
     THEN /\ pc' = "crashed"
          /\ error' = res.err
          /\ failedAt' = stage
          /\ UNCHANGED << db, commits >>
     ELSE /\ pc' = "reran"
          /\ db' = res.d
          /\ commits' = commits \o tables
          /\ UNCHANGED << error, failedAt >>
  /\ UNCHANGED << fs, basics, movies, seed, tx, principals, seen, written, ret >>

\* people.tsv of the first run: the file whose rows are the People rows
PeopleFileOf(d) ==
  { f \in PeopleFiles :
      /\ Len(f) = Cardinality(d.People)
      /\ { f[i].nconst : i \in DOMAIN f } = PeopleIdsOf(d) }

RerunMovies == Rerun("movies", MoviesStage(db, movies), << "Movies" >>)

\* the random module starts from another state in another run
RerunPeople ==
  \E f \in PeopleFileOf(db), sd \in Seeds :
    Rerun("people", PeopleStage(db, sd, f), << "People" >>)

RerunGenres == Rerun("genres", GenresStage(db, movies), << "Genre" >>)

NextRerun ==
  \/ Next
  \/ RerunMovies
  \/ RerunPeople
  \/ RerunGenres

SpecRerun == Init /\ [][NextRerun]_vars

(***************************************************************************)
(* filter_data.py: filter_movies, and the loader's first stage after it    *)
(***************************************************************************)
MOVIE_LIMIT == 50000
YEAR_THRESHOLD == 2000

\* titleType.isin([...])
KeptTypes == { "movie", "tvSeries", "short", "video" }

\* pd.to_numeric(startYear, errors="coerce") of the values that occur; a
\* value outside the table (\N, read as NaN) stays NaN
YearLit ==
  [ s \in {"1999", "2000", "2015"} |->
      CASE s = "1999" -> 1999 [] s = "2000" -> 2000 [] s = "2015" -> 2015 ]

\* to_csv writes the float column startYear as 2015.0
FloatStr(n) ==
  CASE n = 1999 -> "1999.0" [] n = 2000 -> "2000.0" [] n = 2015 -> "2015.0"

\* to_csv writes NaN (na_values="\N") as the empty string
NaStr(v) == IF v = "\\N" THEN "" ELSE v

\* basics[titleType.isin(...)] and then recent = basics[startYear >= 2000]:
\* NaN >= 2000 is False
Qualifies(row) ==
  /\ row.titleType \in KeptTypes
  /\ row.startYear \in DOMAIN YearLit
  /\ YearLit[row.startYear] >= YEAR_THRESHOLD

\* the row of movies.tsv that to_csv writes for a row of the sample
MovieLine(row) ==
  [ tconst |-> row.tconst, primaryTitle |-> NaStr(row.primaryTitle),
    originalTitle |-> NaStr(row.originalTitle), titleType |-> row.titleType,
    startYear |-> FloatStr(YearLit[row.startYear]),
    runtimeMinutes |-> NaStr(row.runtimeMinutes), genres |-> row.genres ]

\* recent.head(MOVIE_LIMIT), written to movies.tsv
FilterMoviesOut(raw) ==
  LET recent == SelectSeq(raw, Qualifies)
      sample == SubSeq(recent, 1, IF Len(recent) < MOVIE_LIMIT THEN Len(recent)
                                  ELSE MOVIE_LIMIT) IN
  [ i \in DOMAIN sample |-> MovieLine(sample[i]) ]

\* the rows title.basics.tsv can hold at line i
BasicsRows(i) ==
  { [ tconst |-> IF i = 1 THEN "tt1" ELSE "tt2", primaryTitle |-> "Dune",
      originalTitle |-> "\\N", titleType |-> ty, startYear |-> y,
      runtimeMinutes |-> rt, genres |-> << "Drama" >> ] :
      ty \in { "movie", "tvEpisode" }, y \in { "\\N", "1999", "2000", "2015" },
      rt \in { "\\N", "0", "90" } }

BasicsFiles ==
  { << >> } \cup { << r >> : r \in BasicsRows(1) }
    \cup { << r1, r2 >> : r1 \in BasicsRows(1), r2 \in BasicsRows(2) }

\* filter_movies
FilterMovies ==
  /\ pc = "extract"
  /\ movies' = FilterMoviesOut(basics)
  /\ pc' = "movies"
  /\ started' = << "movies" >>
  /\ UNCHANGED << fs, basics, seed, db, tx, commits, error, failedAt, principals,
                  seen, written, ret, conns >>

InitPipeline ==
  /\ basics \in BasicsFiles
  /\ movies = << >>
  /\ seed = [ i \in 1..SeedLen |-> 0 ]
  /\ db = EmptyDb
  /\ tx = << >>
  /\ pc = "extract"
  /\ started = << >>
  /\ commits = << >>
  /\ error = ""
  /\ failedAt = ""
  /\ principals = << >>
  /\ seen = NoSeen
  /\ written = 0
  /\ ret = NoCall
  /\ conns = 0
  /\ fs = NoFiles

NextPipeline ==
  \/ FilterMovies
  \/ InsertMovies
  \/ ConnectFail

SpecPipeline == InitPipeline /\ [][NextPipeline]_vars

(***************************************************************************)
(* filter_data.py: the main sequence and the files it reads and writes     *)
(***************************************************************************)
RawFiles ==
  { "title.basics.tsv", "title.principals.tsv", "title.crew.tsv", "name.basics.tsv" }

\* rows per chunk of the chunked scans (chunksize, scaled to the files here)
ChunkRows == 1

\* the header lines to_csv writes: the names of the columns
MoviesHeader ==
  [ tconst |-> "tconst", primaryTitle |-> "primaryTitle",
    originalTitle |-> "originalTitle", titleType |-> "titleType",
    startYear |-> "startYear", runtimeMinutes |-> "runtimeMinutes",
    genres |-> << "genres" >> ]
PrincipalsHeader ==
  [ tconst |-> "tconst", nconst |-> "nconst", category |-> "category" ]
CrewHeader == [ tconst |-> "tconst", directors |-> "directors" ]
PeopleHeader == [ nconst |-> "nconst", primaryName |-> "primaryName" ]

\* a file written in mode "w"
Written(lines) == [ exists |-> TRUE, lines |-> lines ]

\* the rows of a file read with read_csv: the lines after the first one
DataRows(file) == IF file.lines = << >> THEN << >> ELSE Tail(file.lines)

\* chunk[chunk[col].isin(wanted)]
Filtered(chunk, col, wanted) == SelectSeq(chunk, LAMBDA r : r[col] \in wanted)

\* The loop over the chunks of a scan: a chunk with no wanted row writes
\* nothing; the others are appended to the file as it is (mode="a"), the
\* first of them with the header line.
RECURSIVE AppendChunks(_, _, _, _, _, _)
AppendChunks(file, rows, col, wanted, header, header_written) ==
  IF rows = << >> THEN file
  ELSE LET n == IF Len(rows) < ChunkRows THEN Len(rows) ELSE ChunkRows
           filtered == Filtered(SubSeq(rows, 1, n), col, wanted)
           rest == SubSeq(rows, n + 1, Len(rows)) IN
       IF filtered = << >>
       THEN AppendChunks(file, rest, col, wanted, header, header_written)
       ELSE AppendChunks(
              Written(file.lines \o (IF header_written THEN << >> ELSE << header >>)
                        \o filtered),
              rest, col, wanted, header, TRUE)

\* filter_movies: movies.tsv and movie_ids.txt, both opened for writing, and
\* the set of ids returned
FilterMoviesFiles(f, raw) ==
  LET sample == FilterMoviesOut(raw)
      movie_ids == [ i \in DOMAIN sample |-> sample[i].tconst ] IN
  [ f EXCEPT !.movies_tsv = Written(<< MoviesHeader >> \o sample),
             !.movie_ids_txt = Written(movie_ids),
             !.movie_ids = Range(movie_ids),
             !.wrote = @ \cup { "movies.tsv", "movie_ids.txt" } ]

\* filter_principals(movie_ids)
FilterPrincipals(f) ==
  LET out == AppendChunks(f.principals_tsv, f.principals_raw, "tconst",
                          f.movie_ids, PrincipalsHeader, FALSE) IN
  [ f EXCEPT !.principals_tsv = out,
             !.wrote = IF out = f.principals_tsv THEN @
                       ELSE @ \cup { "principals.tsv" } ]

\* filter_crew(movie_ids): one to_csv of the filtered frame, mode "w"
FilterCrew(f) ==
  [ f EXCEPT !.crew_tsv = Written(<< CrewHeader >> \o
                                   Filtered(f.crew_raw, "tconst", f.movie_ids)),
             !.wrote = @ \cup { "crew.tsv" } ]

\* filter_people, up to the scan of name.basics.tsv: the nconst column of
\* principals.tsv, written to people_ids.txt
PeopleIds(f) == { r.nconst : r \in Range(DataRows(f.principals_tsv)) }
FilterPeopleIds(f) ==
  [ f EXCEPT !.people_ids_txt = Written(ListOf(PeopleIds(f))),
             !.wrote = @ \cup { "people_ids.txt" } ]

\* filter_people, the scan of name.basics.tsv
FilterPeople(f) ==
  LET out == AppendChunks(f.people_tsv, f.names_raw, "nconst", PeopleIds(f),
                          PeopleHeader, FALSE) IN
  [ f EXCEPT !.people_tsv = out,
             !.wrote = IF out = f.people_tsv THEN @ ELSE @ \cup { "people.tsv" } ]

\* __main__: the calls in order; filter_ratings is defined nowhere
FilterOrder ==
  << "filter_movies", "filter_principals", "filter_crew", "filter_ratings",
     "filter_people" >>
NextFilter(step) ==
  IF step = "filter_people" THEN "filtered"
  ELSE FilterOrder[IndexOf(FilterOrder, step) + 1]

\* a step of the main sequence: it returns with the files f, or raises err
FilterStep(step, f, err) ==
  /\ pc = step
  /\ started' = Append(started, step)
  /\ fs' = f
  /\ IF err = ""
     THEN pc' = NextFilter(step) /\ UNCHANGED << error, failedAt >>
     ELSE pc' = "crashed" /\ error' = err /\ failedAt' = step
  /\ UNCHANGED << basics, movies, seed, db, tx, commits, principals, seen,
                  written, ret, conns >>

RunFilterMovies ==
  IF "title.basics.tsv" \in fs.present
  THEN FilterStep("filter_movies", FilterMoviesFiles(fs, basics), "")
  ELSE FilterStep("filter_movies", fs, "FileNotFoundError")

RunFilterPrincipals ==
  IF "title.principals.tsv" \in fs.present
  THEN FilterStep("filter_principals", FilterPrincipals(fs), "")
  ELSE FilterStep("filter_principals", fs, "FileNotFoundError")

RunFilterCrew ==
  IF "title.crew.tsv" \in fs.present
  THEN FilterStep("filter_crew", FilterCrew(fs), "")
  ELSE FilterStep("filter_crew", fs, "FileNotFoundError")

\* the name filter_ratings is not defined in the module
RunFilterRatings == FilterStep("filter_ratings", fs, "NameError")

RunFilterPeople ==
  IF ~fs.principals_tsv.exists
  THEN FilterStep("filter_people", fs, "FileNotFoundError")
  ELSE IF "name.basics.tsv" \notin fs.present
  THEN FilterStep("filter_people", FilterPeopleIds(fs), "FileNotFoundError")
  ELSE FilterStep("filter_people", FilterPeople(FilterPeopleIds(fs)), "")

\* the raw files of the runs explored
BasicsSample ==
  { f \in BasicsFiles :
      \A i \in DOMAIN f : f[i].runtimeMinutes = "90" /\ f[i].startYear \in { "1999", "2015" } }
RawPrincipalRows ==
  { [ tconst |-> "tt1", nconst |-> "nm1", category |-> "actor" ],
    [ tconst |-> "tt2", nconst |-> "nm2", category |-> "director" ],
    [ tconst |-> "tt9", nconst |-> "nm1", category |-> "actor" ] }
RawPrincipals ==
  { << >> } \cup { << r >> : r \in RawPrincipalRows }
    \cup { << r1, r2 >> : r1 \in RawPrincipalRows, r2 \in RawPrincipalRows }
RawCrews ==
  { << >>, << [ tconst |-> "tt1", directors |-> "nm1" ] >>,
    << [ tconst |-> "tt9", directors |-> "nm1" ],
       [ tconst |-> "tt1", directors |-> "nm1" ] >> }
RawNames ==
  { << >>, << [ nconst |-> "nm1", primaryName |-> "nm1" ] >>,
    << [ nconst |-> "nm3", primaryName |-> "nm3" ],
       [ nconst |-> "nm2", primaryName |-> "nm2" ] >>,
    << [ nconst |-> "nm1", primaryName |-> "nm1" ],
       [ nconst |-> "nm2", primaryName |-> "nm2" ] >> }

\* filtered_data/ before the run: empty, or as a run of the main sequence
\* over an older title.basics.tsv (one movie, tt3) has left it
EarlierBasics ==
  << [ tconst |-> "tt3", primaryTitle |-> "Heat", originalTitle |-> "\\N",
       titleType |-> "movie", startYear |-> "2000", runtimeMinutes |-> "90",
       genres |-> << "Drama" >> ] >>
EarlierRun ==
  FilterCrew(FilterPrincipals(
    [ FilterMoviesFiles(NoFiles, EarlierBasics) EXCEPT
        !.principals_raw =
           << [ tconst |-> "tt3", nconst |-> "nm3", category |-> "actor" ] >>,
        !.crew_raw = << [ tconst |-> "tt3", directors |-> "nm3" ] >> ]))
OutputDirs == { NoFiles, EarlierRun }

\* the files when the main sequence starts; at most one raw file is missing
StartOf(dir, present, pr, cr, nr) ==
  [ dir EXCEPT !.present = present, !.principals_raw = pr, !.crew_raw = cr,
               !.names_raw = nr, !.wrote = {}, !.movie_ids = {} ]

InitExtract ==
  /\ basics \in BasicsSample
  /\ movies = << >>
  /\ seed = [ i \in 1..SeedLen |-> 0 ]
  /\ db = EmptyDb
  /\ tx = << >>
  /\ pc = "filter_movies"
  /\ started = << >>
  /\ commits = << >>
  /\ error = ""
  /\ failedAt = ""
  /\ principals = << >>
  /\ seen = NoSeen
  /\ written = 0
  /\ ret = NoCall
  /\ conns = 0
  /\ \E dir \in OutputDirs, pr \in RawPrincipals, cr \in RawCrews :
       \E present \in { RawFiles } \cup { RawFiles \ { x } : x \in RawFiles } :
         fs = StartOf(dir, present, pr, cr, << >>)

NextExtract ==
  \/ RunFilterMovies
  \/ RunFilterPrincipals
  \/ RunFilterCrew
  \/ RunFilterRatings

SpecExtract == InitExtract /\ [][NextExtract]_vars
\* the interpreter runs the main sequence on until it ends
SpecExtractFair == SpecExtract /\ WF_vars(NextExtract)

(***************************************************************************)
(* filter_principals and filter_people called on their own                 *)
(***************************************************************************)
\* principals.tsv as filter_principals can have left it
PrincipalsOutputs ==
  { FilterPrincipals([ dir EXCEPT !.principals_raw = pr, !.movie_ids = ids ]).principals_tsv :
      dir \in OutputDirs, pr \in RawPrincipals, ids \in { { "tt1" }, { "tt1", "tt2" } } }

\* people.tsv before the call: none, or that of an earlier call
EarlierPeople ==
  { Absent, Written(<< PeopleHeader, [ nconst |-> "nm3", primaryName |-> "nm3" ] >>) }

InitCopy ==
  /\ basics = << >>
  /\ movies = << >>
  /\ seed = [ i \in 1..SeedLen |-> 0 ]
  /\ db = EmptyDb
  /\ tx = << >>
  /\ started = << >>
  /\ commits = << >>
  /\ error = ""
  /\ failedAt = ""
  /\ principals = << >>
  /\ seen = NoSeen
  /\ written = 0
  /\ ret = NoCall
  /\ conns = 0
  /\ \/ /\ pc = "filter_principals"
        /\ \E dir \in OutputDirs, pr \in RawPrincipals,
              ids \in SUBSET { "tt1", "tt2" } :
             fs = [ StartOf(dir, RawFiles, pr, << >>, << >>) EXCEPT !.movie_ids = ids ]
     \/ /\ pc = "filter_people"
        /\ \E out \in PrincipalsOutputs, nr \in RawNames, old \in EarlierPeople :
             fs = [ StartOf(NoFiles, RawFiles, << >>, << >>, nr) EXCEPT
                      !.principals_tsv = out, !.people_tsv = old ]

NextCopy ==
  \/ RunFilterPrincipals
  \/ RunFilterPeople

SpecCopy == InitCopy /\ [][NextCopy]_vars

(***************************************************************************)
(* insert_roles on its own: any principals.tsv, run on the tables the      *)
(* stages before it leave                                                  *)
(***************************************************************************)
\* the tables when insert_roles starts, people.tsv being pf
BeforeRoles(mv, sd, pf) ==
  LET d1 == MoviesStage(EmptyDb, mv).d
      d2 == StudioCatalogStage(d1, StudioNames).d
      d3 == ProducedByStage(d2, sd, MovieIdsFile(mv)).d IN
  PeopleStage(d3, sd, pf).d

InitRoles ==
  /\ basics = << >>
  /\ movies = << MovieRowA, MovieRowB >>
  /\ seed \in Seeds
  /\ \E pf \in { << PersonRow("nm1") >>, << PersonRow("nm1"), PersonRow("nm2") >> } :
       db = BeforeRoles(movies, seed, pf)
  /\ tx = << >>
  /\ pc = "roles"
  /\ started = << "movies", "studios", "people", "roles" >>
  /\ commits = << "Movies", "Studio", "Produced_By", "People" >>
  /\ error = ""
  /\ failedAt = ""
  /\ principals = << >>
  /\ seen = NoSeen
  /\ written = 0
  /\ ret = NoCall
  /\ conns = 0
  /\ fs = NoFiles

NextRoles ==
  \/ RolesRow(PrincipalRows)
  \/ RolesMember
  \/ RolesCommit
  \/ ConnectFail

SpecRoles == InitRoles /\ [][NextRoles]_vars

(***************************************************************************)
(* Properties of the loader                                                *)
(***************************************************************************)
\* the tables a commit of the log makes durable
TablesOf(c) ==
  CASE c = "Roles" -> RoleTables \cup MemberTables
    [] c = "Genre" -> { "Genre", "Has_Genre" }
    [] OTHER -> { c }

CommittedTables == UNION { TablesOf(c) : c \in Range(commits) }

\* the tables whose identifiers a stage reads
Reads(stage) ==
  CASE stage = "studios" -> { "Movies" }
    [] stage = "people" -> { "Studio" }
    [] stage = "roles" -> { "Movies", "People" }
    [] stage = "genres" -> { "Movies" }
    [] stage = "awards" -> { "Movies" }
    [] stage = "reviews" -> { "Movies", "User" }
    [] stage = "favorites" -> { "Movies", "User" }
    [] OTHER -> {}

StageOrder ==
  << "movies", "studios", "people", "roles", "genres", "awards", "users",
     "reviews", "favorites" >>
CommitOrder ==
  << "Movies", "Studio", "Produced_By", "People", "Roles", "Genre", "Award",
     "Wins_Award", "User", "Review", "Favorites" >>

\* C1: the stages start in the order movies, studios, people, roles, genres,
\* awards, users, reviews, favorites, the catalog of studios and of awards
\* is committed before Produced_By and Wins_Award, and every stage that has
\* started finds the tables whose identifiers it reads committed.
C1_StageOrder ==
  /\ Len(started) <= Len(StageOrder)
  /\ \A i \in DOMAIN started : started[i] = StageOrder[i]
  /\ \A i, j \in DOMAIN commits :
       i < j => IndexOf(CommitOrder, commits[i]) < IndexOf(CommitOrder, commits[j])
  /\ \A i \in DOMAIN started : Reads(started[i]) \subseteq CommittedTables
  /\ pc = "produced_by" => { "Movies", "Studio" } \subseteq CommittedTables
  /\ pc = "wins_award" => { "Movies", "Award" } \subseteq CommittedTables

\* the loader ran to its end, every stage having committed
C1_Witness ==
  /\ pc = "done"
  /\ started = StageOrder
  /\ commits = CommitOrder
  /\ \A t \in DOMAIN db : t \notin { "Writer", "Writes_Script_For" } => db[t] # {}

\* the stage of a value of pc
StageOf(p) ==
  CASE p = "produced_by" -> "studios"
    [] p = "wins_award" -> "awards"
    [] p \in { "roles_member" } -> "roles"
    [] OTHER -> p

\* C2: when a stage fails, the step that ends the loader changes no table
\* and commits nothing, the loader takes no further step (no later stage is
\* started), and the tables hold rows of committed batches only: the rows
\* the failing batch had inserted are not among them.
C2_FailureKeepsCommitted ==
  /\ [](pc = "crashed" =>
         /\ started[Len(started)] = StageOf(failedAt)
         /\ \A t \in DOMAIN db : db[t] # {} => t \in CommittedTables)
  /\ [][pc' = "crashed" => db' = db /\ commits' = commits /\ started' = started]_vars
  /\ [][pc # "crashed"]_vars

\* insert_studios failed after its catalog was committed
C2_Witness ==
  /\ pc = "crashed"
  /\ failedAt = "produced_by"
  /\ error = "IntegrityError"
  /\ db.Studio # {}
  /\ db.Movies # {}
  /\ db.Produced_By = {}

(***************************************************************************)
(* Properties of insert_roles                                              *)
(***************************************************************************)
RoleTableOf(member) ==
  CASE member = "Acts_In" -> "Actor"
    [] member = "Directs" -> "Director"
    [] member = "Writes_Script_For" -> "Writer"

PersonsIn(tbl, rows) == { PersonOf(tbl, r) : r \in rows }

\* C3: every membership statement insert_roles has executed comes after a
\* successful insert of the role row of its person, and among the rows the
\* scan has inserted so far, as among the committed ones, every membership
\* row has the role row of its person.
C3_RoleRowBeforeMembership ==
  /\ \A j \in DOMAIN tx :
       tx[j].tbl \in MemberTables =>
         \E i \in 1..(j - 1) :
           /\ tx[i].tbl = RoleTableOf(tx[j].tbl)
           /\ tx[i].outcome = "ok"
           /\ PersonOf(tx[i].tbl, tx[i].row) = PersonOf(tx[j].tbl, tx[j].row)
  /\ \A m \in MemberTables :
       /\ PersonsIn(m, Apply(db, tx)[m]) \subseteq
            PersonsIn(RoleTableOf(m), Apply(db, tx)[RoleTableOf(m)])
       /\ PersonsIn(m, db[m]) \subseteq PersonsIn(RoleTableOf(m), db[RoleTableOf(m)])

\* two rows named one person in one role, then the stage committed
C3_Witness ==
  /\ "Roles" \in Range(commits)
  /\ Len(tx) = 3
  /\ tx[2].tbl = "Writes_Script_For" /\ tx[2].outcome = "ok"
  /\ tx[3].tbl = "Writes_Script_For" /\ tx[3].outcome = "ok"
  /\ Cardinality(db.Writes_Script_For) = 2
  /\ Cardinality(db.Writer) = 1

\* the rows of principals.tsv read so far that take a branch of the scan
Recognised == SelectSeq(principals, LAMBDA r : RoleOf(r.category) # "none")
\* the membership statements executed so far
MemberStatements == SelectSeq(tx, LAMBDA e : e.tbl \in MemberTables)
\* the role-row statements executed so far for person p in table role
RoleStatements(role, p) ==
  { i \in DOMAIN tx : tx[i].tbl = role /\ PersonOf(role, tx[i].row) = p }
\* the rows read so far that name person p in the role of table role
Sightings(role, p) ==
  { i \in DOMAIN principals :
      RoleOf(principals[i].category) = role /\ principals[i].nconst = p }
\* the membership statement of the last row read is still to be executed
\* (or never will be, its role row having been refused)
MemberPending ==
  \/ pc = "roles_member"
  \/ pc = "crashed" /\ failedAt = "roles" /\ principals # << >>

\* C4: for every person and role, the scan executes one role-row insert if
\* some row read names the person in that role and none otherwise; the row of
\* a director or writer carries the movie of the first such row; once the
\* stage has committed, the role tables hold exactly the rows of those
\* inserts, through every later stage; and the membership statements
\* executed are, in order, those of the recognised rows, one for each.
C4_OneRoleRowPerPerson ==
  /\ \A role \in RoleTables, p \in PersonIds :
       /\ Cardinality(RoleStatements(role, p)) =
            IF Sightings(role, p) = {} THEN 0 ELSE 1
       /\ \A i \in RoleStatements(role, p) :
            role # "Actor" =>
              tx[i].row.best_known_movieId = principals[SetMin(Sightings(role, p))].tconst
  /\ "Roles" \in Range(commits) =>
       \A role \in RoleTables : db[role] = TxRows(tx, role)
  /\ Len(MemberStatements) = Len(Recognised) - (IF MemberPending THEN 1 ELSE 0)
  /\ \A k \in DOMAIN MemberStatements :
       /\ MemberStatements[k].tbl = MemberTable(RoleOf(Recognised[k].category))
       /\ MemberStatements[k].row =
            MemberRow(RoleOf(Recognised[k].category), Recognised[k])

\* a director seen on two movies keeps the first as best known, to the end
\* of the loader
C4_Witness ==
  /\ pc = "done"
  /\ Len(principals) = 2
  /\ principals[1] = [ tconst |-> "tt1", nconst |-> "nm1", category |-> "director" ]
  /\ principals[2] = [ tconst |-> "tt2", nconst |-> "nm1", category |-> "director" ]
  /\ Cardinality(db.Directs) = 2
  /\ \E r \in db.Director : db.Director = { r } /\ r.best_known_movieId = "tt1"
  /\ db.Favorites # {}

\* C5: a membership statement that repeats the (movie, person) pair of an
\* earlier one of the same table is ignored, and does not end the loader.
C5_DuplicateMembershipIgnored ==
  \A j \in DOMAIN tx :
    ( /\ tx[j].tbl \in MemberTables
      /\ \E i \in 1..(j - 1) : tx[i].tbl = tx[j].tbl /\ tx[i].row = tx[j].row )
    => /\ tx[j].outcome = "ignored"
       /\ ~(pc = "crashed" /\ j = Len(tx))

\* the second of two rows naming one director on one movie ended the loader
C5_Witness ==
  /\ pc = "crashed"
  /\ failedAt = "roles_member"
  /\ error = "IntegrityError"
  /\ Len(principals) = 2
  /\ principals[1] = principals[2]
  /\ principals[1].category = "director"
  /\ db.Director = {} /\ db.Directs = {}

(***************************************************************************)
(* The query layer (backend/db.py, backend/queries.py) and the review     *)
(* form (frontend/gui.py), on the tables a completed load leaves           *)
(***************************************************************************)
\* the lower and upper end of the ratings insert_review accepts
RatingLow == 1
RatingHigh == 10

\* int(s) of the strings that occur; every other string raises ValueError
IntLit ==
  [ s \in {"0", "1", "9", "10", "11"} |->
      CASE s = "0" -> 0 [] s = "1" -> 1 [] s = "9" -> 9
        [] s = "10" -> 10 [] s = "11" -> 11 ]
IsIntLit(s) == s \in DOMAIN IntLit

\* A DATETIME column takes 'YYYY-MM-DD HH:MM:SS'; it is kept as the number
\* of days after 2019-01-01, as the loader's post_time is.
DatetimeLit == [ s \in {"2024-05-01 12:00:00"} |-> 1947 ]
ValidDatetime(s) == s \in DOMAIN DatetimeLit

\* a message of the query layer or of the form
Msg(kind) == [ kind |-> kind, title |-> "", years |-> << >>, various |-> FALSE ]

\* the statements cursor.execute is given
SelectStmt(title) ==
  [ kind |-> "SELECT", table |-> "Movies", title |-> title, movieId |-> "" ]
InsertStmt(row) ==
  [ kind |-> "INSERT", table |-> "Review", title |-> "", movieId |-> row.movieId ]

\* run_select_query of the lookup's SELECT. conn is the state of the server:
\* "down", get_connection returns None; "lost", the statement raises Error;
\* both return no row and no header.
RunSelectQuery(d, conn, title) ==
  IF conn = "down"
  THEN [ rows |-> << >>, headers |-> << >>, stmts |-> << >> ]
  ELSE IF conn = "lost"
  THEN [ rows |-> << >>, headers |-> << >>, stmts |-> << SelectStmt(title) >> ]
  ELSE [ rows |-> ListOf({ << m.movieId, m.primaryTitle, m.startYear >> :
                             m \in { x \in d.Movies : x.primaryTitle = title } }),
         headers |-> << "movieId", "primaryTitle", "startYear" >>,
         stmts |-> << SelectStmt(title) >> ]

\* a lookup that takes the first row whenever there is one
FindFirstMovieIdByTitle(d, conn, title) ==
  LET res == RunSelectQuery(d, conn, title) IN
  IF Len(res.rows) = 0
  THEN [ movieId |-> NULL,
         message |-> [ Msg("No movie found") EXCEPT !.title = title ],
         stmts |-> res.stmts ]
  ELSE [ movieId |-> res.rows[1][1], message |-> Msg(""), stmts |-> res.stmts ]

\* queries.find_movie_id_by_title
FindMovieIdByTitle(d, conn, title) ==
  LET res == RunSelectQuery(d, conn, title)
      rows == res.rows
      \* [str(row[2]) for row in rows if row[2]]
      years == SelectSeq([ i \in DOMAIN rows |-> rows[i][3] ], LAMBDA y : y # 0) IN
  IF Len(rows) = 0
  THEN [ movieId |-> NULL,
         message |-> [ Msg("No movie found") EXCEPT !.title = title ],
         stmts |-> res.stmts ]
  ELSE IF Len(rows) = 1
  THEN [ movieId |-> rows[1][1], message |-> Msg(""), stmts |-> res.stmts ]
  ELSE [ movieId |-> NULL,
         message |-> [ kind |-> "Multiple movies found", title |-> title,
                       years |-> years, various |-> years = << >> ],
         stmts |-> res.stmts ]

\* a Review row references a user and a movie that exist
ReviewRefs(d, row) ==
  row.userId \in UserIdsOf(d) /\ row.movieId \in MovieIdsOf(d)

\* run_insert_query of the INSERT into Review. env is what the server does:
\* "down", get_connection returns None; "commit_error", commit raises Error;
\* "rollback_error", the statement raises Error and so does the rollback in
\* the handler, which leaves run_insert_query as an exception.
RunInsertQuery(d, env, row) ==
  LET accepted == ReviewRefs(d, row) /\ ValidDatetime(row.post_time)
      stored == [ reviewId |-> NextId({ r.reviewId : r \in d.Review }, 1),
                  userId |-> row.userId, movieId |-> row.movieId,
                  post_time |-> DatetimeLit[row.post_time],
                  content |-> row.content, rating |-> row.rating ] IN
  IF env = "down"
  THEN [ affected |-> 0, d |-> d, stmts |-> << >>, raised |-> FALSE ]
  ELSE IF env = "rollback_error"
  THEN [ affected |-> 0, d |-> d, stmts |-> << InsertStmt(row) >>, raised |-> TRUE ]
  ELSE IF env = "up" /\ accepted
  THEN [ affected |-> 1, d |-> [d EXCEPT !.Review = @ \cup { stored }],
         stmts |-> << InsertStmt(row) >>, raised |-> FALSE ]
  ELSE [ affected |-> 0, d |-> d, stmts |-> << InsertStmt(row) >>, raised |-> FALSE ]

\* the outcome of a call: the pair returned, the tables after it, the
\* statements executed, and whether it ended in an exception instead
Returns(success, message, d, stmts) ==
  [ success |-> success, message |-> message, d |-> d, stmts |-> stmts,
    raised |-> FALSE ]

\* an insert_review without its try: the exception reaches the caller
NoExcept(r) ==
  [ success |-> FALSE, message |-> Msg(""), d |-> r.d, stmts |-> r.stmts,
    raised |-> TRUE ]

\* `except Exception as e: return False, f"Database error: {e}"`
ExceptException(r) == Returns(FALSE, Msg("Database error"), r.d, r.stmts)

\* a check that lets 11 through
RatingUpToEleven(rating) == ~(rating < RatingLow \/ rating > RatingHigh + 1)

\* queries.insert_review: `if rating < 1 or rating > 10` does not hold
RatingAccepted(rating) == ~(rating < RatingLow \/ rating > RatingHigh)

\* queries.insert_review
QueriesInsertReview(d, env, user_id, movie_id, rating, content, post_time) ==
  IF ~RatingAccepted(rating)
  THEN Returns(FALSE, Msg("Rating must be between 1 and 10."), d, << >>)
  ELSE LET params == [ userId |-> user_id, movieId |-> movie_id, rating |-> rating,
                       content |-> content, post_time |-> post_time ]
           r == RunInsertQuery(d, env, params) IN
       IF r.raised THEN ExceptException(r)
       ELSE IF r.affected = 1
       THEN Returns(TRUE, Msg("Review inserted successfully."), r.d, r.stmts)
       ELSE IF r.affected > 1
       THEN Returns(TRUE, Msg("Inserted rows (unexpected)."), r.d, r.stmts)
       ELSE Returns(FALSE, Msg("No row inserted (check userId/movieId)."), r.d, r.stmts)

\* a form that takes any integer as a rating
AnyRating(rating_int) == TRUE

\* gui.insert_review: `if rating_int < 1 or rating_int > 10` does not hold
FormRatingAccepted(rating_int) == ~(rating_int < RatingLow \/ rating_int > RatingHigh)

\* gui.insert_review; data is the dictionary review_data
\* an exception leaves the function: nothing is returned
Uncaught(d, stmts) ==
  [ success |-> FALSE, message |-> Msg(""), d |-> d, stmts |-> stmts,
    raised |-> TRUE ]

\* gui.insert_review. `review_data.get('content', '').strip()` stands
\* before every try: a content of None has no strip (AttributeError).
GuiInsertReview(d, conn, env, data) ==
  LET content == Strip(data.content) IN
  IF data.content = NULL THEN Uncaught(d, << >>)
  ELSE IF data.userId = "" THEN Returns(FALSE, Msg("User ID is required."), d, << >>)
  ELSE IF data.movieTitle = ""
  THEN Returns(FALSE, Msg("Movie Title is required."), d, << >>)
  ELSE IF content = ""
  THEN Returns(FALSE, Msg("Review content cannot be empty."), d, << >>)
  ELSE IF ~IsIntLit(data.rating)
  THEN Returns(FALSE, Msg("Invalid rating value"), d, << >>)
  ELSE IF ~FormRatingAccepted(IntLit[data.rating])
  THEN Returns(FALSE, Msg("Invalid rating"), d, << >>)
  ELSE IF ~IsIntLit(data.userId)
  THEN Returns(FALSE, Msg("User ID must be a valid integer."), d, << >>)
  ELSE LET look == FindMovieIdByTitle(d, conn, Strip(data.movieTitle)) IN
       IF look.movieId = NULL
       THEN Returns(FALSE, look.message, d, look.stmts)
       ELSE LET res == QueriesInsertReview(d, env, IntLit[data.userId], look.movieId,
                                           IntLit[data.rating], content, data.postTime) IN
            IF res.raised
            THEN Returns(FALSE, Msg("Database error"), res.d, look.stmts \o res.stmts)
            ELSE Returns(res.success, res.message, res.d, look.stmts \o res.stmts)

\* the tables a run of the loader leaves when no principals row is read
Loaded(mv, sd, pf, uf) ==
  LET d1 == BeforeRoles(mv, sd, pf)
      d2 == GenresStage(d1, mv).d
      d3 == AwardCatalogStage(d2).d
      d4 == WinsAwardStage(d3, sd, mv).d
      d5 == UsersStage(d4, uf).d
      d6 == ReviewsStage(d5, sd).d IN
  FavoritesStage(d6, sd)

\* what the form and the callers of the query layer pass
FormUserIds == { "", "1", "9", "abc" }
FormTitles == { "", "  ", "Dune", " Heat ", "Nope" }
FormRatings == { "0", "1", "10", "11", "x" }
FormContents == { "", "  ", "Good." }
PostTimes == { "2024-05-01 12:00:00", "soon" }
LookupTitles == { "", "Dune", "Heat", "Alien", "Nope" }

InitGui ==
  /\ basics = << >>
  /\ movies = << MovieRowA, MovieRowB, MovieRowC, MovieRowD, MovieRowE >>
  /\ seed = [ i \in 1..SeedLen |-> 0 ]
  /\ LET run == Loaded(movies, seed, << PersonRow("nm1") >>, << << "smomery0" >> >>) IN
     /\ run.err = ""
     /\ db = run.d
  /\ tx = << >>
  /\ pc = "done"
  /\ started = MainOrder
  /\ commits = << "Movies", "Studio", "Produced_By", "People", "Roles", "Genre",
                  "Award", "Wins_Award", "User", "Review", "Favorites" >>
  /\ error = ""
  /\ failedAt = ""
  /\ principals = << >>
  /\ seen = NoSeen
  /\ written = 0
  /\ ret = NoCall
  /\ conns = 0
  /\ fs = NoFiles

\* A call of the query layer or of the form returns res: ret keeps the call
\* and its outcome, together with the table Review as it was before it.
Call(op, args, conn, env, res, movieId) ==
  /\ pc = "done"
  /\ ret = NoCall
  /\ res.d # db => written < MaxWrites
  /\ ret' = [ op |-> op, args |-> args, conn |-> conn, env |-> env,
              success |-> res.success, movieId |-> movieId,
              message |-> res.message, stmts |-> res.stmts,
              raised |-> res.raised, before |-> db.Review ]
  /\ db' = res.d
  /\ written' = IF res.d # db THEN written + 1 ELSE written
  /\ UNCHANGED << fs, basics, movies, seed, tx, pc, started, commits, error, failedAt,
                  principals, seen, conns >>

\* a caller looks a title up
CallFindMovieIdByTitle ==
  \E title \in LookupTitles, conn \in { "up", "down", "lost" } :
    LET r == FindMovieIdByTitle(db, conn, title) IN
    Call("find_movie_id_by_title", [ title |-> title ], conn, "",
         Returns(r.movieId # NULL, r.message, db, r.stmts), r.movieId)

\* a caller of queries.insert_review
CallQueriesInsertReview ==
  \E user_id \in { 1, 9 }, movie_id \in { "tt3", "tt9" }, rating \in { 0, 1, 10, 11 },
     post_time \in PostTimes, env \in { "up", "down", "commit_error", "rollback_error" } :
    Call("queries.insert_review",
         [ user_id |-> user_id, movie_id |-> movie_id, rating |-> rating,
           content |-> "Good.", post_time |-> post_time ],
         "", env,
         QueriesInsertReview(db, env, user_id, movie_id, rating, "Good.", post_time),
         movie_id)

\* handle_submit_review: the Submit Review button
SubmitReview ==
  \E userId \in FormUserIds, movieTitle \in FormTitles, rating \in FormRatings,
     content \in FormContents, conn \in { "up", "down" },
     env \in { "up", "down", "commit_error", "rollback_error" } :
    LET data == [ userId |-> userId, movieTitle |-> movieTitle, rating |-> rating,
                  content |-> content, postTime |-> "2024-05-01 12:00:00" ] IN
    Call("gui.insert_review", data, conn, env,
         GuiInsertReview(db, conn, env, data), "")

\* gui.insert_review called with a dictionary whose content is None or a
\* text (the form always passes a text), the other entries valid
CallGuiInsertReview ==
  \E userId \in { "1", "9" }, content \in { NULL, "Good." }, conn \in { "up", "down" } :
    LET data == [ userId |-> userId, movieTitle |-> "Heat", rating |-> "10",
                  content |-> content, postTime |-> "2024-05-01 12:00:00" ] IN
    Call("gui.insert_review", data, conn, "up",
         GuiInsertReview(db, conn, "up", data), "")

\* the outcome has been shown; the window waits for the next event
NextEvent ==
  /\ ret # NoCall
  /\ ret' = NoCall
  /\ UNCHANGED << fs, basics, movies, seed, db, tx, pc, started, commits, error, failedAt,
                  principals, seen, written, conns >>

(***************************************************************************)
(* The read-only queries Q1..Q12                                           *)
(***************************************************************************)
QueryIds ==
  { "Q1", "Q2", "Q3", "Q4", "Q5", "Q6", "Q7", "Q8", "Q9", "Q10", "Q11", "Q12" }

\* int(param_value) of handle_run_query, for the values entered
ParamInt ==
  [ s \in {"100", "180", "1950", "1980", "2010", "2031"} |->
      CASE s = "100" -> 100 [] s = "180" -> 180 [] s = "1950" -> 1950
        [] s = "1980" -> 1980 [] s = "2010" -> 2010 [] s = "2031" -> 2031 ]

\* the values entered for the one parameter of each query
QueryParams(q) ==
  CASE q = "Q1" -> { "2010", "2031" }
    [] q = "Q2" -> { "Dune" }
    [] q = "Q3" -> { "Dune", "Heat", "Nope" }
    [] q = "Q4" -> { "nm1" }
    [] q = "Q5" -> { "A24", "Nope" }
    [] q = "Q6" -> { "Best Picture", "Nope" }
    [] q = "Q7" -> { "1950" }
    [] q = "Q8" -> { "nm1" }
    [] q = "Q9" -> { "smomery0", "Nope" }
    [] q = "Q10" -> { "Drama", "Horror" }
    [] q = "Q11" -> { "100", "180" }
    [] q = "Q12" -> { "1980" }
    [] OTHER -> { "" }

\* the first table of the FROM clause of each query
QueryTable(q) ==
  CASE q \in { "Q1", "Q2", "Q3", "Q6", "Q10", "Q11" } -> "Movies"
    [] q \in { "Q4", "Q7", "Q8", "Q12" } -> "People"
    [] q = "Q5" -> "Studio"
    [] q = "Q9" -> "User"

\* the one statement a query function hands to run_select_query
QueryStmt(q, p) ==
  [ kind |-> "SELECT", table |-> QueryTable(q), title |-> p, movieId |-> "" ]

\* cursor.description of each query
QueryHeaders(q) ==
  CASE q = "Q1" -> << "movieId", "primaryTitle", "startYear", "runtimeMinutes", "genre" >>
    [] q = "Q2" -> << "actorId", "actorName" >>
    [] q = "Q3" -> << "movieTitle", "userName", "rating", "postTime", "reviewContent" >>
    [] q = "Q4" -> << "movieId", "primaryTitle", "startYear", "runtimeMinutes" >>
    [] q = "Q5" -> << "studioName", "avgUserRating", "numMovies", "numReviews" >>
    [] q = "Q6" -> << "movieId", "primaryTitle", "releaseYear", "awardName", "awardYear" >>
    [] q = "Q7" -> << "actorId", "primaryName", "studioName", "foundedYear" >>
    [] q = "Q8" -> << "writerId", "writerName", "movieTitle" >>
    [] q = "Q9" -> << "movieId", "primaryTitle", "releaseYear" >>
    [] q = "Q10" -> << "movieId", "primaryTitle", "startYear", "genre", "avgRating",
                      "numReviews" >>
    [] q = "Q11" -> << "movieId", "primaryTitle", "startYear", "runtimeMinutes" >>
    [] q = "Q12" -> << "actorId", "actorName", "birthYear", "primaryProfession" >>

\* the award names that match LIKE '%keyword%'
NamesLike(keyword) ==
  { a \in Range(AWARD_LIST) :
      keyword = "Best Picture" /\ a = "Academy Award Best Picture" }

\* the sum of the ratings of a set of reviews
RECURSIVE SumRatings(_)
SumRatings(rs) ==
  IF rs = {} THEN 0
  ELSE LET r == CHOOSE x \in rs : TRUE IN r.rating + SumRatings(rs \ { r })

\* AVG(r.rating), kept as the pair (sum, count)
AvgRating(rs) == << SumRatings(rs), Cardinality(rs) >>

\* The rows the joins, the WHERE clause and the grouping of query q select
\* for parameter p, before ORDER BY and LIMIT.
Matches(d, q, p) ==
  CASE q = "Q1" ->
         { << m.movieId, m.primaryTitle, m.startYear, m.runtimeMinutes, g.name >> :
             << m, g >> \in
               { x \in d.Movies \X d.Genre :
                   /\ [ movieId |-> x[1].movieId, genreId |-> x[2].genreId ]
                        \in d.Has_Genre
                   /\ x[1].startYear >= ParamInt[p]
                   /\ x[2].name \in { "Sci-Fi", "Science Fiction" } } }
    [] q = "Q2" ->
         { << a.pId, a.primaryName >> :
             a \in { x \in d.People :
                       /\ x.pId \in { r.actorId : r \in d.Actor }
                       /\ \E m \in d.Movies :
                            /\ m.primaryTitle = p
                            /\ [ movieId |-> m.movieId, actorId |-> x.pId ]
                                 \in d.Acts_In } }
    [] q = "Q3" ->
         { << m.primaryTitle, u.userName, r.rating, r.post_time, r.content >> :
             << m, r, u >> \in
               { x \in d.Movies \X d.Review \X d.User :
                   /\ x[1].movieId = x[2].movieId
                   /\ x[2].userId = x[3].userId
                   /\ x[1].primaryTitle = p } }
    [] q = "Q4" ->
         { << m.movieId, m.primaryTitle, m.startYear, m.runtimeMinutes >> :
             m \in { x \in d.Movies :
                       \E pe \in d.People :
                         /\ pe.primaryName = p
                         /\ pe.pId \in { r.directorId : r \in d.Director }
                         /\ [ movieId |-> x.movieId, directorId |-> pe.pId ]
                              \in d.Directs } }
    [] q = "Q5" ->
         { << s.studioName,
              AvgRating({ r \in d.Review :
                            [ movieId |-> r.movieId, studioId |-> s.studioId ]
                              \in d.Produced_By }),
              Cardinality({ r.movieId : r \in
                            { x \in d.Review :
                                [ movieId |-> x.movieId, studioId |-> s.studioId ]
                                  \in d.Produced_By } }),
              Cardinality({ r \in d.Review :
                              [ movieId |-> r.movieId, studioId |-> s.studioId ]
                                \in d.Produced_By }) >> :
             s \in { x \in d.Studio :
                       /\ x.studioName = p
                       /\ \E r \in d.Review :
                            [ movieId |-> r.movieId, studioId |-> x.studioId ]
                              \in d.Produced_By } }
    [] q = "Q6" ->
         { << m.movieId, m.primaryTitle, m.releaseYear, a.awardName, w.year >> :
             << m, w, a >> \in
               { x \in d.Movies \X d.Wins_Award \X d.Award :
                   /\ x[1].movieId = x[2].movieId
                   /\ x[2].awardId = x[3].awardId
                   /\ x[3].awardName \in NamesLike(p) } }
    [] q = "Q7" ->
         \* studios.tsv is a list of names: foundedYear is NULL in every
         \* Studio row, and NULL < %s selects nothing
         { }
    [] q = "Q8" ->
         { << w.pId, w.primaryName, m.primaryTitle >> :
             << w, m >> \in
               { x \in d.People \X d.Movies :
                   /\ [ movieId |-> x[2].movieId, writerId |-> x[1].pId ]
                        \in d.Writes_Script_For
                   /\ \E pd \in d.People :
                        /\ pd.primaryName = p
                        /\ [ movieId |-> x[2].movieId, directorId |-> pd.pId ]
                             \in d.Directs } }
    [] q = "Q9" ->
         { << m.movieId, m.primaryTitle, m.releaseYear >> :
             m \in { x \in d.Movies :
                       \E u \in d.User :
                         /\ u.userName = p
                         /\ [ userId |-> u.userId, movieId |-> x.movieId ]
                              \in d.Favorites } }
    [] q = "Q10" ->
         { << m.movieId, m.primaryTitle, m.startYear, g.name,
              AvgRating({ r \in d.Review : r.movieId = m.movieId }),
              Cardinality({ r \in d.Review : r.movieId = m.movieId }) >> :
             << m, g >> \in
               { x \in d.Movies \X d.Genre :
                   /\ [ movieId |-> x[1].movieId, genreId |-> x[2].genreId ]
                        \in d.Has_Genre
                   /\ x[2].name = p
                   /\ \E r \in d.Review : r.movieId = x[1].movieId } }
    [] q = "Q11" ->
         { << m.movieId, m.primaryTitle, m.startYear, m.runtimeMinutes >> :
             m \in { x \in d.Movies : x.runtimeMinutes >= ParamInt[p] } }
    [] q = "Q12" ->
         { << a.pId, a.primaryName, a.birthYear, a.primaryProfession >> :
             a \in { x \in d.People :
                       /\ x.pId \in { r.actorId : r \in d.Actor }
                       /\ x.birthYear = ParamInt[p] } }

\* The titles and names of the rows, in the order of the collation.
Collation == << "Alien", "Dune", "Heat", "nm1", "nm2", "Solaris" >>
StrRank(str) == IndexOf(Collation, str)

\* The ORDER BY clause of each query as a list of integer keys, ascending;
\* a DESC column is negated. Q5 has no ORDER BY; Q10 orders by an average
\* and is compared in Precedes.
OrderKey(q, row) ==
  CASE q = "Q1" -> << row[3], StrRank(row[2]) >>
    [] q = "Q2" -> << StrRank(row[2]) >>
    [] q = "Q3" -> << 0 - row[4] >>
    [] q = "Q4" -> << row[3], StrRank(row[2]) >>
    [] q = "Q6" -> << 0 - row[5], StrRank(row[2]) >>
    [] q = "Q7" -> << row[4], StrRank(row[2]) >>
    [] q = "Q8" -> << StrRank(row[2]), StrRank(row[3]) >>
    [] q = "Q9" -> << StrRank(row[2]), row[3] >>
    [] q = "Q11" -> << 0 - row[4], StrRank(row[2]) >>
    [] q = "Q12" -> << StrRank(row[2]) >>
    [] OTHER -> << >>

\* k1 sorts strictly before k2
LexLess(k1, k2) ==
  \E i \in DOMAIN k1 :
    /\ k1[i] < k2[i]
    /\ \A j \in 1..(i - 1) : k1[j] = k2[j]

\* the average a, kept as (sum, count), is above the average b
AvgAbove(a, b) == a[1] * b[2] > b[1] * a[2]

\* an ordering that would list the lowest average first
PrecedesAscending(q, a, b) ==
  IF q = "Q10"
  THEN \/ AvgAbove(b[5], a[5])
       \/ ~AvgAbove(a[5], b[5]) /\ a[6] < b[6]
  ELSE LexLess(OrderKey(q, a), OrderKey(q, b))

\* ORDER BY: row a has to come before row b. Q10: `ORDER BY avgRating DESC,
\* numReviews DESC`.
Precedes(q, a, b) ==
  IF q = "Q10"
  THEN \/ AvgAbove(a[5], b[5])
       \/ ~AvgAbove(b[5], a[5]) /\ a[6] > b[6]
  ELSE LexLess(OrderKey(q, a), OrderKey(q, b))

\* The list sorted by the ORDER BY clause; rows the clause does not order
\* keep the order they have in the list.
RECURSIVE OrderBy(_, _)
OrderBy(q, rows) ==
  IF rows = << >> THEN << >>
  ELSE LET i == SetMin({ k \in DOMAIN rows :
                           \A j \in DOMAIN rows : ~Precedes(q, rows[j], rows[k]) }) IN
       << rows[i] >> \o
         OrderBy(q, SubSeq(rows, 1, i - 1) \o SubSeq(rows, i + 1, Len(rows)))

\* the queries whose statement ends with a LIMIT clause, and the limit
Capped == { "Q1", "Q6", "Q7", "Q10", "Q11" }
QueryLimit(q) ==
  CASE q \in { "Q1", "Q6", "Q11" } -> 200
    [] q = "Q7" -> 500
    [] q = "Q10" -> 10

\* LIMIT n
Take(rows, n) == IF Len(rows) <= n THEN rows ELSE SubSeq(rows, 1, n)

Reverse(list) == [ i \in DOMAIN list |-> list[Len(list) + 1 - i] ]

\* cursor.fetchall(): the selected rows, ordered and cut as the statement
\* says. The server is free in the order of the rows that ORDER BY leaves
\* equal (all of them for Q5): tie says which of two such orders it takes.
Fetch(q, selected, tie) ==
  LET found == IF tie = 0 THEN ListOf(selected) ELSE Reverse(ListOf(selected))
      sorted == OrderBy(q, found) IN
  IF q \in Capped THEN Take(sorted, QueryLimit(q)) ELSE sorted

\* a query that would empty the table it has just listed
RunQuerySelectDeleting(d, conn, q, p, tie) ==
  IF conn # "up"
  THEN [ rows |-> << >>, headers |-> << >>, stmts |-> << >>, d |-> d ]
  ELSE [ rows |-> Fetch(q, Matches(d, q, p), tie), headers |-> QueryHeaders(q),
         stmts |-> << QueryStmt(q, p) >>,
         d |-> [d EXCEPT ![QueryTable(q)] = {}] ]

\* query_Qn: run_select_query of the statement of query q. "down",
\* get_connection returns None; "lost", cursor.execute raises Error; both
\* return ([], []). The statement is a SELECT and run_select_query never
\* commits: d is the tables after the call.
RunQuerySelect(d, conn, q, p, tie) ==
  IF conn = "down"
  THEN [ rows |-> << >>, headers |-> << >>, stmts |-> << >>, d |-> d ]
  ELSE IF conn = "lost"
  THEN [ rows |-> << >>, headers |-> << >>, stmts |-> << QueryStmt(q, p) >>,
         d |-> d ]
  ELSE [ rows |-> Fetch(q, Matches(d, q, p), tie), headers |-> QueryHeaders(q),
         stmts |-> << QueryStmt(q, p) >>, d |-> d ]

\* ids that gui.run_query has no branch for
UnknownQueryIds == { "Q13" }

\* gui.run_query: the branch of the query id calls its query function; the
\* `else` branch answers with one row and touches no table
GuiRunQuery(d, conn, q, p, tie) ==
  IF q \in QueryIds THEN RunQuerySelect(d, conn, q, p, tie)
  ELSE [ rows |-> << << "Query not implemented" >> >>, headers |-> << "Message" >>,
         stmts |-> << >>, d |-> d ]

\* handle_run_query: what the status line and the popup say of the pair
\* gui.run_query returned
QueryStatus(rows) ==
  IF Len(rows) = 0 THEN Msg("No results found") ELSE Msg("Query completed")

\* the Run Query button: gui.run_query calls the query function, and the
\* window shows the rows with "Query completed successfully!"
RunQuery ==
  /\ pc = "done"
  /\ ret = NoCall
  /\ \E q \in QueryIds \cup UnknownQueryIds, conn \in { "up", "down", "lost" } :
       \E p \in QueryParams(q), tie \in { 0, 1 } :
         LET res == GuiRunQuery(db, conn, q, p, tie) IN
         /\ db' = res.d
         /\ ret' = [ op |-> "gui.run_query", args |-> [ query_id |-> q, param |-> p ],
                     conn |-> conn, env |-> "", success |-> TRUE, movieId |-> "",
                     message |-> QueryStatus(res.rows), stmts |-> res.stmts,
                     raised |-> FALSE, before |-> db.Review,
                     rows |-> res.rows, headers |-> res.headers ]
  /\ UNCHANGED << fs, basics, movies, seed, tx, pc, started, commits, error, failedAt,
                  principals, seen, written, conns >>

NextGui ==
  \/ RunQuery
  \/ CallFindMovieIdByTitle
  \/ CallQueriesInsertReview
  \/ SubmitReview
  \/ CallGuiInsertReview
  \/ NextEvent

SpecGui == InitGui /\ [][NextGui]_vars

(***************************************************************************)
(* The queries over a reviewed catalogue: more movies of one genre than    *)
(* the LIMIT of Q10, with reviews whose averages differ and tie.           *)
(***************************************************************************)
CatalogIds ==
  << "tt01", "tt02", "tt03", "tt04", "tt05", "tt06", "tt07", "tt08", "tt09",
     "tt10", "tt11", "tt12" >>

\* the ratings of the reviews one movie may have: none, or averages 7 (one
\* and two reviews), 10 and 5.5
RatingProfiles == << << >>, << 7 >>, << 6, 8 >>, << 10 >>, << 5, 6 >> >>
ProfilePatterns == [ 1..3 -> DOMAIN RatingProfiles ]
ProfileOf(pat, i) == RatingProfiles[pat[(i % 3) + 1]]

\* the tables with the first n movies of the catalogue, the first of them a
\* Horror movie and the others Drama, movie i reviewed as pat says
Catalog(n, pat) ==
  [ EmptyDb EXCEPT
      !.Movies = { [ movieId |-> CatalogIds[i], primaryTitle |-> "Dune",
                     originalTitle |-> "Dune", titleType |-> "movie",
                     startYear |-> 2015, runtimeMinutes |-> DefaultRuntime,
                     releaseYear |-> 2015 ] : i \in 1..n },
      !.Genre = { [ genreId |-> 1, name |-> "Horror" ],
                  [ genreId |-> 2, name |-> "Drama" ] },
      !.Has_Genre = { [ movieId |-> CatalogIds[i],
                        genreId |-> IF i = 1 THEN 1 ELSE 2 ] : i \in 1..n },
      !.User = { [ userId |-> 1, userName |-> "smomery0" ] },
      !.Review = { [ reviewId |-> 2 * (x[1] - 1) + x[2], userId |-> 1,
                     movieId |-> CatalogIds[x[1]], post_time |-> 0,
                     content |-> "Dull.",
                     rating |-> ProfileOf(pat, x[1])[x[2]] ] :
                     x \in { y \in (1..n) \X (1..2) :
                               y[2] <= Len(ProfileOf(pat, y[1])) } } ]

InitCatalog ==
  /\ basics = << >>
  /\ movies = << >>
  /\ seed = [ i \in 1..SeedLen |-> 0 ]
  /\ \E n \in 0..Len(CatalogIds), pat \in ProfilePatterns : db = Catalog(n, pat)
  /\ tx = << >>
  /\ pc = "done"
  /\ started = MainOrder
  /\ commits = << "Movies", "Genre", "User", "Review" >>
  /\ error = ""
  /\ failedAt = ""
  /\ principals = << >>
  /\ seen = NoSeen
  /\ written = 0
  /\ ret = NoCall
  /\ conns = 0
  /\ fs = NoFiles

NextCatalog ==
  \/ RunQuery
  \/ NextEvent

SpecCatalog == InitCatalog /\ [][NextCatalog]_vars

(***************************************************************************)
(* Properties of the review write path                                     *)
(***************************************************************************)
\* the INSERT statements the last call executed
InsertsOf(stmts) == { i \in DOMAIN stmts : stmts[i].kind = "INSERT" }

\* the movies whose primaryTitle is title
Matching(title) == { m \in db.Movies : m.primaryTitle = title }

\* the messages with which the form and insert_review refuse an input
ValidationMessages ==
  { "User ID is required.", "Movie Title is required.",
    "Review content cannot be empty.", "Invalid rating value", "Invalid rating",
    "User ID must be a valid integer.", "Rating must be between 1 and 10." }
LookupMessages == { "No movie found", "Multiple movies found" }

\* C6: a call of queries.insert_review with a rating below 1 or above 10
\* returns False with the rating message and executes no statement; a
\* submission of the form with such a rating returns False with a validation
\* message and executes no INSERT; either leaves Review as it was.
C6_RatingOutOfRangeRejected ==
  /\ ( /\ ret.op = "queries.insert_review"
       /\ ret.args.rating < 1 \/ ret.args.rating > 10 )
     => /\ ~ret.success /\ ~ret.raised
        /\ ret.message.kind = "Rating must be between 1 and 10."
        /\ ret.stmts = << >>
        /\ db.Review = ret.before
  /\ ( /\ ret.op = "gui.insert_review"
       /\ IsIntLit(ret.args.rating)
       /\ IntLit[ret.args.rating] < 1 \/ IntLit[ret.args.rating] > 10 )
     => /\ ~ret.success /\ ~ret.raised
        /\ ret.message.kind \in ValidationMessages
        /\ InsertsOf(ret.stmts) = {}
        /\ db.Review = ret.before

\* insert_review refused the rating 11 of a review it could have stored
C6_Witness ==
  /\ ret.op = "queries.insert_review"
  /\ ret.args.rating = 11
  /\ ret.args.user_id = 1 /\ ret.args.movie_id = "tt3"
  /\ ret.args.post_time = "2024-05-01 12:00:00"
  /\ ret.env = "up"
  /\ ~ret.success
  /\ db.Review = ret.before

\* C7: find_movie_id_by_title returns the id and an empty message when one
\* movie has the title, no id and the not-found message when none has it, no
\* id and the ambiguous message naming the startYear of each of them when
\* two or more have it.
C7_LookupByMatchCount ==
  ret.op = "find_movie_id_by_title" =>
    LET found == Matching(ret.args.title) IN
    /\ Cardinality(found) = 1 =>
         /\ ret.movieId \in { m.movieId : m \in found }
         /\ ret.message = Msg("")
    /\ found = {} =>
         /\ ret.movieId = NULL
         /\ ret.message.kind = "No movie found"
    /\ Cardinality(found) >= 2 =>
         /\ ret.movieId = NULL
         /\ ret.message.kind = "Multiple movies found"
         /\ Range(ret.message.years) = { m.startYear : m \in found }

\* the lookup of a title one movie has, the server being unreachable,
\* answered that no movie has it
C7_Witness ==
  /\ ret.op = "find_movie_id_by_title"
  /\ ret.args.title = "Heat"
  /\ ret.conn = "down"
  /\ Cardinality(Matching("Heat")) = 1
  /\ ret.movieId = NULL
  /\ ret.message.kind = "No movie found"

\* C8: a submission of the form executes an INSERT only when exactly one
\* movie has the (stripped) title, and that INSERT, like the row it adds,
\* carries the id of that movie; when the lookup ran and none or several
\* movies have the title, no INSERT is executed and the form returns False
\* with the lookup's message.
C8_InsertOnlyForUniqueMatch ==
  ret.op = "gui.insert_review" =>
    LET found == Matching(Strip(ret.args.movieTitle))
        looked == \E i \in DOMAIN ret.stmts : ret.stmts[i].kind = "SELECT" IN
    /\ \A i \in InsertsOf(ret.stmts) :
         /\ Cardinality(found) = 1
         /\ ret.stmts[i].movieId \in { m.movieId : m \in found }
    /\ \A r \in db.Review \ ret.before :
         /\ Cardinality(found) = 1
         /\ r.movieId \in { m.movieId : m \in found }
    /\ (looked /\ Cardinality(found) # 1) =>
         /\ InsertsOf(ret.stmts) = {}
         /\ db.Review = ret.before
         /\ ~ret.success
         /\ ret.message.kind =
              IF found = {} THEN "No movie found" ELSE "Multiple movies found"
         /\ ret.message.title = Strip(ret.args.movieTitle)

\* the form stored a review of the one movie titled Heat
C8_Witness ==
  /\ ret.op = "gui.insert_review"
  /\ ret.args.movieTitle = " Heat "
  /\ ret.success
  /\ Len(ret.stmts) = 2
  /\ ret.stmts[2].kind = "INSERT" /\ ret.stmts[2].movieId = "tt3"
  /\ \E r \in db.Review : db.Review = ret.before \cup { r } /\ r.movieId = "tt3"

\* the form refuses the fields of the last submission
FieldFailure ==
  \/ ret.args.userId = ""
  \/ ret.args.movieTitle = ""
  \/ ret.args.content \in { "", "  " }
  \/ ret.args.rating \notin { "1", "10" }
  \/ ret.args.userId = "abc"
\* the title of the last submission is none or several movies'
LookupFailure == Cardinality(Matching(Strip(ret.args.movieTitle))) # 1

\* C9 as stated: every validation failure of a submission, that of the title
\* lookup included, returns False with a message and executes no statement.
C9_RejectedBeforeAnyStatement ==
  (ret.op = "gui.insert_review" /\ (FieldFailure \/ LookupFailure)) =>
    /\ ~ret.success /\ ~ret.raised
    /\ ret.message.kind \in ValidationMessages \cup LookupMessages
    /\ ret.stmts = << >>

\* C9: every validation failure of a submission returns False with a message
\* and executes no INSERT: a missing field, a rating that is no integer of
\* 1..10 and a user id that is no integer are refused before any statement,
\* a title of none or of several movies after the SELECT of the lookup alone.
C9_RejectedBeforeAnyInsert ==
  ret.op = "gui.insert_review" =>
    /\ FieldFailure =>
         /\ ~ret.success /\ ~ret.raised
         /\ ret.message.kind \in ValidationMessages
         /\ ret.stmts = << >>
         /\ db.Review = ret.before
    /\ (~FieldFailure /\ LookupFailure) =>
         /\ ~ret.success /\ ~ret.raised
         /\ ret.message.kind \in LookupMessages
         /\ ret.stmts \in { << >>, << SelectStmt(Strip(ret.args.movieTitle)) >> }
         /\ db.Review = ret.before

\* the form refused a title no movie has, after the SELECT of the lookup
C9_Witness ==
  /\ ret.op = "gui.insert_review"
  /\ ~FieldFailure
  /\ ret.args.movieTitle = "Nope"
  /\ ret.conn = "up"
  /\ ~ret.success
  /\ ret.message.kind = "No movie found"
  /\ ret.stmts = << SelectStmt("Nope") >>

\* the write of the last call of queries.insert_review could not be made:
\* the server was unreachable or failed, or the row names a user or a movie
\* that does not exist, or its post_time is no datetime
PersistenceError ==
  \/ ret.env # "up"
  \/ ret.args.user_id \notin { u.userId : u \in db.User }
  \/ ret.args.movie_id \notin { m.movieId : m \in db.Movies }
  \/ ret.args.post_time # "2024-05-01 12:00:00"

\* C10: when the write of queries.insert_review meets a persistence error,
\* the call returns False with a message, raises nothing, and leaves Review
\* as it was.
C10_PersistenceErrorReported ==
  ( /\ ret.op = "queries.insert_review"
    /\ ret.args.rating \in 1..10
    /\ PersistenceError )
  => /\ ~ret.success
     /\ ~ret.raised
     /\ ret.message.kind \in
          { "Database error", "No row inserted (check userId/movieId)." }
     /\ db.Review = ret.before

\* the statement failed and so did the rollback: the exception that left
\* run_insert_query came back as a message
C10_Witness ==
  /\ ret.op = "queries.insert_review"
  /\ ret.env = "rollback_error"
  /\ ret.args.rating = 10 /\ ret.args.user_id = 1 /\ ret.args.movie_id = "tt3"
  /\ ~ret.success /\ ~ret.raised
  /\ ret.message.kind = "Database error"
  /\ ret.stmts # << >>

\* ------------------------------------------------------------------
\* Properties of failure handling in the loader
\* ------------------------------------------------------------------

\* C11: a statement that fails in a load stage is caught where it failed:
\* the stage rolls back and returns, so no statement error ever ends the
\* loader as an uncaught exception, and nothing of the failed batch is kept.
C11_StatementFailureCaught ==
  /\ error = "IntegrityError" => pc # "crashed"
  /\ pc = "crashed" =>
       \A t \in DOMAIN db \ CommittedTables : db[t] = EmptyDb[t]

\* the second of two equal tconst is refused by Movies and the exception
\* leaves insert_movies, and the loader, with nothing stored
C11_Witness ==
  /\ pc = "crashed"
  /\ failedAt = "movies"
  /\ error = "IntegrityError"
  /\ movies = << MovieRowA, MovieRowA >>
  /\ db = EmptyDb

\* insert_roles is between its open_cursor() and its close_cursor()
InsideRoles == pc = "roles_member" \/ (pc = "roles" /\ principals # << >>)

\* C12: a load stage has closed the connection it opened when it is left, on
\* every path (its end, an early return, a failing statement), so that no
\* connection is open between two stages and never more than one at all.
C12_ConnectionClosedOnEveryPath ==
  /\ conns <= 1
  /\ ~InsideRoles => conns = 0

\* users.csv is empty: insert_reviews took its early return, and __main__
\* goes on to insert_favorites with the connection of insert_reviews open
C12_Witness ==
  /\ pc = "favorites"
  /\ db.User = {}
  /\ db.Movies # {}
  /\ "Review" \notin Range(commits)
  /\ conns = 1

(***************************************************************************)
(* Properties of the query layer                                           *)
(***************************************************************************)
\* the last call found the server unreachable: get_connection returned None
Unreachable ==
  \/ ret.op \in { "find_movie_id_by_title", "gui.run_query" } /\ ret.conn = "down"
  \/ ret.op = "queries.insert_review" /\ ret.env = "down" /\ ret.args.rating \in 1..10

\* C13: when the server is unreachable a call executes no statement and its
\* outcome is not one a reachable server gives: the title lookup does not say
\* "No movie found" of a title that exists, a query is not reported as
\* completed successfully with no results, and the write returns False.
C13_UnreachableIsReported ==
  Unreachable =>
    /\ ret.stmts = << >>
    /\ ret.op = "find_movie_id_by_title" /\ Matching(ret.args.title) # {}
         => ret.message.kind # "No movie found"
    /\ ret.op = "gui.run_query"
         => ~(ret.success /\ ret.message.kind = "No results found")
    /\ ret.op = "queries.insert_review" => ~ret.success

\* Q11 with min_runtime 100 has rows to return, the server is unreachable,
\* and the window says the query completed with no results
C13_Witness ==
  /\ ret.op = "gui.run_query"
  /\ ret.conn = "down"
  /\ ret.args = [ query_id |-> "Q11", param |-> "100" ]
  /\ Matches(db, "Q11", "100") # {}
  /\ ret.stmts = << >>
  /\ ret.rows = << >> /\ ret.headers = << >>
  /\ ret.success /\ ret.message.kind = "No results found"

\* the calls that only read
ReadOnlyOps == { "gui.run_query", "find_movie_id_by_title" }
\* the calls that end in queries.insert_review
WriteOps == { "queries.insert_review", "gui.insert_review" }

\* the Review row a successful write stores for the call kept in r
StoredBy(r, d) ==
  { x \in d.Review :
      /\ x.movieId = r.movieId
      /\ r.op = "queries.insert_review" =>
           /\ x.userId = r.args.user_id
           /\ x.rating = r.args.rating
           /\ x.content = r.args.content }

\* C14: Q1..Q12 and find_movie_id_by_title leave every table as it was; a
\* successful insert_review adds exactly one row to Review and changes no
\* other table; and no table changes in any other way.
C14_OnlyInsertReviewWrites ==
  [][ (ret = NoCall /\ ret' # NoCall) =>
        /\ ret'.op \in ReadOnlyOps => db' = db
        /\ (ret'.op = "queries.insert_review" /\ ret'.success) =>
             /\ Cardinality(db'.Review) = Cardinality(db.Review) + 1
             /\ db.Review \subseteq db'.Review
             /\ db'.Review \ db.Review \subseteq StoredBy(ret', db')
             /\ \A t \in DOMAIN db \ { "Review" } : db'[t] = db[t]
        /\ db' # db => ret'.op \in WriteOps /\ ret'.success ]_vars

\* a review has been written by queries.insert_review, and a query that has
\* rows to return has run after it
C14_Witness ==
  /\ written = 1
  /\ ret.op = "gui.run_query"
  /\ ret.conn = "up"
  /\ Len(ret.rows) > 0
  /\ Cardinality(db.Review) = 2

(***************************************************************************)
(* Properties of the movies, genres and favorites stages                   *)
(***************************************************************************)
\* C15: every Movies row that the extractor and then the loader produce has
\* startYear at or above the extractor's cutoff and a strictly positive
\* runtimeMinutes, whatever title rows pass the extractor's filter.
C15_YearAndRuntimeOfMovies ==
  \A m \in db.Movies :
    /\ m.startYear >= YEAR_THRESHOLD
    /\ m.runtimeMinutes > 0

\* a title of 2015 whose runtimeMinutes is 0 in title.basics.tsv passed the
\* filter and is stored with runtimeMinutes 0
C15_Witness ==
  /\ pc = "studios"
  /\ Len(basics) = 1
  /\ Qualifies(basics[1])
  /\ basics[1].startYear = "2015" /\ basics[1].runtimeMinutes = "0"
  /\ \E m \in db.Movies : m.movieId = "tt1" /\ m.startYear = 2015 /\ m.runtimeMinutes = 0

\* the Movies rows stored for line i of movies.tsv
StoredFor(i) == { m \in db.Movies : m.movieId = movies[i].tconst }

\* C16: the file with the one row (startYear 2015, runtimeMinutes empty,
\* genres "Drama") gives exactly one Movies row, with runtimeMinutes 120 and
\* releaseYear = startYear = 2015, exactly one Genre row, named Drama, and
\* exactly one Has_Genre row, linking the two; and whatever the file, an
\* empty runtimeMinutes is stored as 120 and any other as its integer value.
C16_OneRowScenario ==
  /\ (movies = << MovieRowA >> /\ "Genre" \in Range(commits)) =>
       /\ Cardinality(db.Movies) = 1
       /\ \A m \in db.Movies :
            /\ m.runtimeMinutes = 120
            /\ m.startYear = 2015 /\ m.releaseYear = 2015
       /\ Cardinality(db.Genre) = 1
       /\ \A g \in db.Genre : g.name = "Drama"
       /\ db.Has_Genre =
            { [ movieId |-> m.movieId, genreId |-> g.genreId ] :
                m \in db.Movies, g \in db.Genre }
       /\ Cardinality(db.Has_Genre) = 1
  /\ "Movies" \in Range(commits) =>
       \A i \in DOMAIN movies :
         /\ StoredFor(i) # {}
         /\ \A m \in StoredFor(i) :
              m.runtimeMinutes =
                CASE movies[i].runtimeMinutes = "" -> 120
                  [] movies[i].runtimeMinutes = "90" -> 90
                  [] movies[i].runtimeMinutes = "155" -> 155

\* the one-row file has been loaded up to the genres
C16_Witness ==
  /\ movies = << MovieRowA >>
  /\ MovieRowA.startYear = "2015.0" /\ MovieRowA.runtimeMinutes = ""
  /\ MovieRowA.genres = << "Drama" >>
  /\ pc = "awards"
  /\ \E m \in db.Movies : m.movieId = "tt1" /\ m.runtimeMinutes = 120
  /\ db.Has_Genre = { [ movieId |-> "tt1", genreId |-> 1 ] }

\* the names the scan of movies.tsv meets: the first entry of each non-empty
\* genres field, without the blanks around it
NamesMet == { Strip(Head(movies[i].genres)) :
                i \in { j \in DOMAIN movies : movies[j].genres # << >> } }

\* the Has_Genre rows of line i of movies.tsv
LinksOf(i) == { h \in db.Has_Genre : h.movieId = movies[i].tconst }

\* C17: when insert_genres has run, Genre holds one row for each name the
\* scan met, however often it met it, and no other; every line with a
\* non-empty genres field has exactly one Has_Genre row, to the Genre row
\* named by the first entry of its list; a line with an empty genres field
\* has none.
C17_GenresOfOneScan ==
  "Genre" \in Range(commits) =>
    /\ { g.name : g \in db.Genre } = NamesMet
    /\ \A n \in NamesMet : Cardinality({ g \in db.Genre : g.name = n }) = 1
    /\ \A i \in DOMAIN movies :
         IF movies[i].genres = << >> THEN LinksOf(i) = {}
         ELSE /\ Cardinality(LinksOf(i)) = 1
              /\ \A h \in LinksOf(i) :
                   \E g \in db.Genre :
                     /\ g.genreId = h.genreId
                     /\ g.name = Strip(Head(movies[i].genres))

\* the five-line file: Drama and Sci-Fi are met twice each, one line lists
\* two genres and one has none
C17_Witness ==
  /\ Len(movies) = 5
  /\ "Genre" \in Range(commits)
  /\ Cardinality(db.Genre) = 2
  /\ Cardinality(db.Has_Genre) = 4
  /\ LinksOf(4) = {}
  /\ \E g \in db.Genre :
       g.name = "Sci-Fi" /\ LinksOf(2) = { [ movieId |-> "tt2", genreId |-> g.genreId ] }

\* C18: every Has_Genre row carries a genre id that exactly one Genre row
\* has, no two Genre rows have the same name, and this stays so when
\* insert_genres is run a second time over the same movies.tsv.
C18_GenreLinksResolve ==
  /\ \A h \in db.Has_Genre :
       Cardinality({ g \in db.Genre : g.genreId = h.genreId }) = 1
  /\ \A g1, g2 \in db.Genre : g1.name = g2.name => g1 = g2

\* insert_genres has been run again over the file whose genres are loaded:
\* its first INSERT INTO Genre was refused
C18_Witness ==
  /\ pc = "crashed"
  /\ failedAt = "genres"
  /\ Len(started) = Len(MainOrder) + 1
  /\ error = "IntegrityError"
  /\ Len(movies) = 5
  /\ Cardinality(db.Genre) = 2
  /\ Cardinality(db.Has_Genre) = 4

\* the table a second run of a stage would add rows to
TableOfStage(stage) ==
  CASE stage = "movies" -> "Movies"
    [] stage = "people" -> "People"
    [] stage = "genres" -> "Genre"

\* C19: a second run of insert_movies, insert_people or insert_genres on
\* tables the first run has populated ends with a uniqueness violation and
\* leaves every table, and so the number of rows of Movies, People and
\* Genre, as it was.
C19_SecondRunFails ==
  [][ (pc = "done" /\ pc' # "done") =>
        LET stage == started'[Len(started')] IN
        db[TableOfStage(stage)] # {} =>
          /\ pc' = "crashed"
          /\ error' = "IntegrityError"
          /\ failedAt' = stage
          /\ db' = db ]_vars

\* insert_people has been run again on the two persons it had loaded
C19_Witness ==
  /\ pc = "crashed"
  /\ failedAt = "people"
  /\ Len(started) = Len(MainOrder) + 1
  /\ error = "IntegrityError"
  /\ Cardinality(db.People) = 2
  /\ "People" \in Range(commits)

\* the favorites of user u
FavoritesOf(u) == { f \in db.Favorites : f.userId = u }

\* C20: insert_favorites, run on a schema without favorites, completes
\* whatever User and Movies hold, and then every user has between 5 and 30
\* favorites, each a movie of Movies.
C20_FavoritesForEveryUser ==
  /\ (pc = "crashed" /\ failedAt = "favorites") => error = "DatabaseError"
  /\ "Favorites" \in Range(commits) =>
       \A u \in UserIdsOf(db) :
         /\ Cardinality(FavoritesOf(u)) >= MinFavorites
         /\ Cardinality(FavoritesOf(u)) <= MaxFavorites
         /\ \A f \in FavoritesOf(u) : f.movieId \in MovieIdsOf(db)

\* one user and two movies: random.sample is asked for at least five of the
\* two and raises, and no favorite is stored
C20_Witness ==
  /\ pc = "crashed"
  /\ failedAt = "favorites"
  /\ error = "ValueError"
  /\ Cardinality(db.User) = 1
  /\ Cardinality(db.Movies) = 2
  /\ db.Favorites = {}

(***************************************************************************)
(* Properties of the awards and reviews stages                             *)
(***************************************************************************)
\* the Movies rows a Wins_Award row belongs to
MoviesOf(w) == { m \in db.Movies : m.movieId = w.movieId }

\* C21: when insert_awards has run, every Wins_Award row belongs to a movie
\* whose start year is at most 2025, its year lies between that start year
\* and 2025, its awardId is the id of a row of Award, and no movie has two.
C21_WinsAwardRows ==
  "Wins_Award" \in Range(commits) =>
    /\ \A w \in db.Wins_Award :
         /\ MoviesOf(w) # {}
         /\ \A m \in MoviesOf(w) :
              /\ m.startYear <= 2025
              /\ m.startYear <= w.year /\ w.year <= 2025
         /\ Cardinality({ a \in db.Award : a.awardId = w.awardId }) = 1
    /\ \A w1, w2 \in db.Wins_Award : w1.movieId = w2.movieId => w1 = w2

\* of the five movies some have won, the one of 2030 has not
C21_Witness ==
  /\ "Wins_Award" \in Range(commits)
  /\ Len(movies) = 5
  /\ db.Wins_Award # {}
  /\ \A w \in db.Wins_Award : w.movieId # "tt4"
  /\ Cardinality(db.Award) = Len(AWARD_LIST)

\* the review text still holds a line-break tag
HasBrTag(str) == str = "Great.<br />Loved it."

\* C22: every Review row that insert_reviews inserts has a userId of User and
\* a movieId of Movies as they are when the stage runs, an integer rating
\* in 1..10, a post_time from 2019-01-01 to 2024-12-31 (0..WindowDays days
\* after 2019-01-01) and a content without "<br />"; when User or Movies is
\* empty the stage inserts nothing.
C22_ReviewRows ==
  [][ pc = "reviews" /\ pc' # "reviews" =>
        /\ ReviewsReturnEarly(db) => db'.Review = db.Review
        /\ \A r \in db'.Review \ db.Review :
             /\ r.userId \in UserIdsOf(db)
             /\ r.movieId \in MovieIdsOf(db)
             /\ r.rating \in MinRating..MaxRating
             /\ r.post_time \in 0..WindowDays
             /\ ~HasBrTag(r.content) ]_vars

C22_Witness ==
  /\ "Review" \in Range(commits)
  /\ \E r \in db.Review :
       /\ r.content = "Great. Loved it."
       /\ r.post_time = WindowDays - 1
       /\ r.rating = MinRating

(***************************************************************************)
(* Properties of the queries                                               *)
(***************************************************************************)
\* the genre of the name has the movie
InGenre(movieId, name) ==
  \E g \in db.Genre :
    /\ g.name = name
    /\ [ movieId |-> movieId, genreId |-> g.genreId ] \in db.Has_Genre

\* the last call ran query q on a reachable server
Answered(q) ==
  /\ ret.op = "gui.run_query"
  /\ ret.args.query_id = q
  /\ ret.conn = "up"

\* C23: for every genre name and every state of the database, Q10 returns at
\* most 10 rows, only movies of that genre with at least one review, sorted
\* by average rating descending, ties broken by review count descending.
C23_Top10ByGenre ==
  Answered("Q10") =>
    /\ Len(ret.rows) <= 10
    /\ \A i \in DOMAIN ret.rows :
         LET row == ret.rows[i]
             reviews == { r \in db.Review : r.movieId = row[1] } IN
         /\ row[4] = ret.args.param
         /\ InGenre(row[1], ret.args.param)
         /\ reviews # {}
         /\ row[5] = AvgRating(reviews)
         /\ row[6] = Cardinality(reviews)
    /\ \A i, j \in DOMAIN ret.rows :
         i < j =>
           \/ AvgAbove(ret.rows[i][5], ret.rows[j][5])
           \/ /\ ~AvgAbove(ret.rows[j][5], ret.rows[i][5])
              /\ ret.rows[i][6] >= ret.rows[j][6]

\* more than ten reviewed movies of the genre, and among the rows returned
\* two averages that differ and two that tie with different counts
C23_Witness ==
  /\ Answered("Q10")
  /\ Cardinality(Matches(db, "Q10", ret.args.param)) > 10
  /\ Len(ret.rows) = 10
  /\ \E i, j \in DOMAIN ret.rows : AvgAbove(ret.rows[i][5], ret.rows[j][5])
  /\ \E i, j \in DOMAIN ret.rows :
       /\ ~AvgAbove(ret.rows[i][5], ret.rows[j][5])
       /\ ~AvgAbove(ret.rows[j][5], ret.rows[i][5])
       /\ ret.rows[i][6] > ret.rows[j][6]

\* C24: every query returns a bounded result in the declared order: the
\* statement of every query, the open-ended scans Q2, Q3, Q4, Q8, Q9 and Q12
\* included, has a row cap (200 for Q1, Q6 and Q11, 500 for Q7, 10 for Q10),
\* no more rows than the cap are returned, and no row stands before one the
\* ORDER BY clause puts first.
C24_EveryQueryCapped ==
  \A q \in QueryIds :
    Answered(q) =>
      /\ q \in Capped
      /\ Len(ret.rows) <= QueryLimit(q)
      /\ \A i, j \in DOMAIN ret.rows :
           i < j => ~Precedes(q, ret.rows[j], ret.rows[i])

(***************************************************************************)
(* Properties of the extractor                                             *)
(***************************************************************************)
\* the column tconst of the rows of a file
TconstsOf(file) == [ i \in DOMAIN DataRows(file) |-> DataRows(file)[i].tconst ]

\* filter_crew has returned
CrewFiltered ==
  pc = "filter_ratings" \/ (pc = "crashed" /\ failedAt = "filter_ratings")

\* C25: the output of the extractor is consistent: movies.tsv holds only rows
\* of the types movie, tvSeries, short, video with a start year of 2000 or
\* later, at most 50000 of them, the first qualifying rows in source order;
\* movie_ids.txt lists exactly their ids; every row of principals.tsv and of
\* crew.tsv has a tconst of that set; every row of people.tsv has an nconst
\* that occurs in principals.tsv.
C25_ExtractorOutputsConsistent ==
  CrewFiltered =>
    LET rows == DataRows(fs.movies_tsv)
        qualifying == SelectSeq(basics, Qualifies) IN
    /\ \A i \in DOMAIN rows :
         /\ rows[i].titleType \in KeptTypes
         /\ IntOfFloat(rows[i].startYear) >= YEAR_THRESHOLD
    /\ Len(rows) <= MOVIE_LIMIT
    /\ Len(rows) <= Len(qualifying)
    /\ \A i \in DOMAIN rows : rows[i].tconst = qualifying[i].tconst
    /\ Len(rows) < MOVIE_LIMIT => Len(rows) = Len(qualifying)
    /\ fs.movie_ids_txt.lines = TconstsOf(fs.movies_tsv)
    /\ \A r \in Range(DataRows(fs.principals_tsv)) : r.tconst \in Range(TconstsOf(fs.movies_tsv))
    /\ \A r \in Range(DataRows(fs.crew_tsv)) : r.tconst \in Range(TconstsOf(fs.movies_tsv))
    /\ \A r \in Range(DataRows(fs.people_tsv)) : r.nconst \in PeopleIds(fs)

\* C26: when one of the four raw input files is missing the run of the
\* extractor ends in a fatal error and leaves no partial extraction: it does
\* not complete, and when it has ended none of the output files has been
\* written by it.
C26_NoPartialExtraction ==
  fs.present # RawFiles =>
    /\ pc # "filtered"
    /\ pc = "crashed" => fs.wrote = {}

\* C28: when the four raw input files are present the main sequence runs
\* filter_movies, filter_principals, filter_crew and filter_people to
\* completion in that order, so that the people files are eventually
\* written.
C28_PeopleEventuallyWritten ==
  (pc = "filter_movies" /\ fs.present = RawFiles)
    ~> (pc = "filtered" /\ "people_ids.txt" \in fs.wrote)

\* C29: after filter_principals, and likewise the people pass of
\* filter_people, has returned, the output file holds exactly one header
\* line followed by exactly the input rows whose identifier is wanted, each
\* once and in input order, whatever the file held before and also when no
\* input row matches.
C29_FilteredCopyExact ==
  [][ /\ pc = "filter_principals" /\ pc' = "filter_crew" =>
           fs'.principals_tsv =
             Written(<< PrincipalsHeader >> \o
                       Filtered(fs.principals_raw, "tconst", fs.movie_ids))
      /\ pc = "filter_people" /\ pc' = "filtered" =>
           fs'.people_tsv =
             Written(<< PeopleHeader >> \o
                       Filtered(fs.names_raw, "nconst", PeopleIds(fs))) ]_vars

(***************************************************************************)
(* Properties of the calls of the window                                   *)
(***************************************************************************)
\* C27: no fault reaches the operator uncaught: for every query id, known
\* or unknown, and every parameter, gui.run_query returns headers and rows
\* and never raises, an unknown id giving the one row 'Query not
\* implemented'; for every review_data, gui.insert_review returns a success
\* flag and a message and never raises.
C27_NoFaultUncaught ==
  /\ ret.op = "gui.run_query" =>
       /\ ~ret.raised
       /\ ret.args.query_id \in UnknownQueryIds =>
            /\ ret.headers = << "Message" >>
            /\ ret.rows = << << "Query not implemented" >> >>
  /\ ret.op = "gui.insert_review" => ~ret.raised

(***************************************************************************)
(* Properties of the references of the loaded rows                         *)
(***************************************************************************)
\* the second half of insert_studios has executed its statement
ProducedByAttempted ==
  \/ "Produced_By" \in Range(commits)
  \/ failedAt = "produced_by" /\ error = "IntegrityError"

\* C30: the loader never attempts to insert a row that references a missing
\* parent: whatever the studio list, the studioId of every Produced_By row
\* it sends and the currentStudioId of every People row is that of a loaded
\* Studio row; every movie id of a Produced_By row has a Movies row and
\* every movie gets exactly one Produced_By row; every person for whom
\* insert_roles inserts a role row has a People row.
C30_NoMissingParent ==
  /\ ProducedByAttempted =>
       \A row \in Range(ProducedByRows(seed, MovieIdsFile(movies))) :
         ProducedByRefs(db, row)
  /\ "Produced_By" \in Range(commits) =>
       \A m \in db.Movies :
         Cardinality({ r \in db.Produced_By : r.movieId = m.movieId }) = 1
  /\ \A p \in db.People : p.currentStudioId \in StudioIdsOf(db)
  /\ \A i \in DOMAIN tx :
       tx[i].tbl \in { "Actor", "Director", "Writer" } =>
         PersonOf(tx[i].tbl, tx[i].row) \in PeopleIdsOf(db)
====
